---- MODULE Spec2Model ----
(***************************************************************************)
(* Content analysis of the MathBlocks editor: the heuristic detectors of   *)
(* src/lib/utils/html-parser.ts run over a parsed document, and the        *)
(* component state of the transformation interface that holds the result.  *)
(*                                                                         *)
(* Strings are sequences of one-character strings.  A parsed document is a *)
(* sequence of nodes in document (pre-)order; node 0 stands for <body>.    *)
(***************************************************************************)
EXTENDS Integers, Sequences, FiniteSets, TLC

(***************************************************************************)
(* Characters and character classes of the regular expressions (all the    *)
(* patterns of the source carry the /i flag, so [a-z] is every letter).    *)
(***************************************************************************)
LowerSeq ==
  <<"a","b","c","d","e","f","g","h","i","j","k","l","m",
    "n","o","p","q","r","s","t","u","v","w","x","y","z">>

UpperSeq ==
  <<"A","B","C","D","E","F","G","H","I","J","K","L","M",
    "N","O","P","Q","R","S","T","U","V","W","X","Y","Z">>

Lower == {LowerSeq[i] : i \in 1..26}

Upper == {UpperSeq[i] : i \in 1..26}

Letter == Lower \cup Upper

Digit == {"0","1","2","3","4","5","6","7","8","9"}

NumChar == Digit \cup {"."}

Space == {" ", "\n", "\t"}

PlusMinus == {"+", "-"}

Operator4 == {"+", "-", "*", "/"}

MathChar == Digit \cup Letter \cup {".", "+", "-", "*", "/", "^", "(", ")"}

StepChar == MathChar \cup {"="}

TermChar == Letter \cup Digit \cup {"."}

\* "sup2" is the one character U+00B2 (superscript two)
AnyChar == MathChar \cup Space \cup {"=", ":", ",", "!", "?", "_", "sup2"}

ToLowerCase(c) ==
  IF c \in Upper THEN LowerSeq[CHOOSE i \in 1..26 : UpperSeq[i] = c] ELSE c

ToUpperCase(c) ==
  IF c \in Lower THEN UpperSeq[CHOOSE i \in 1..26 : LowerSeq[i] = c] ELSE c

(***************************************************************************)
(* A backtracking regular-expression matcher with the priorities of the    *)
(* JavaScript engine.  Ends(re, s, i) is the sequence of positions at      *)
(* which a match of re starting at position i of s can end, in the order   *)
(* in which backtracking tries them; the first one is the match.           *)
(***************************************************************************)
Cls(S) == [k |-> "cls", set |-> S]

Seq1(items) == [k |-> "seq", items |-> items]

Alt(a, b) == [k |-> "alt", a |-> a, b |-> b]

Star(r) == [k |-> "star", r |-> r]

LazyStar(r) == [k |-> "lazy", r |-> r]

Plus(r) == Seq1(<<r, Star(r)>>)

Ch(c) == Cls({ToLowerCase(c), ToUpperCase(c)})

Word(w) == Seq1([i \in 1..Len(w) |-> Ch(w[i])])

Ws == Star(Cls(Space))

Ws1 == Plus(Cls(Space))

RECURSIVE Ends(_, _, _), EndsFrom(_, _, _, _)
Ends(re, s, i) ==
  CASE re.k = "cls" ->
         IF i <= Len(s) /\ s[i] \in re.set THEN <<i + 1>> ELSE <<>>
    [] re.k = "seq" ->
         IF re.items = <<>> THEN <<i>>
         ELSE EndsFrom(Seq1(Tail(re.items)), s, Ends(Head(re.items), s, i), 0)
    [] re.k = "alt" -> Ends(re.a, s, i) \o Ends(re.b, s, i)
    [] re.k = "star" -> EndsFrom(re, s, Ends(re.r, s, i), i) \o <<i>>
    [] re.k = "lazy" -> <<i>> \o EndsFrom(re, s, Ends(re.r, s, i), i)

\* the continuations of re from each position of js, except position skip
\* (an iteration of a star that consumed nothing is not repeated)
EndsFrom(re, s, js, skip) ==
  IF js = <<>> THEN <<>>
  ELSE (IF Head(js) = skip THEN <<>> ELSE Ends(re, s, Head(js)))
       \o EndsFrom(re, s, Tail(js), skip)

NoMatch == [start |-> 0, end |-> 0]

RECURSIVE SearchFrom(_, _, _)
SearchFrom(re, s, i) ==
  IF i > Len(s) + 1 THEN NoMatch
  ELSE LET es == Ends(re, s, i)
       IN IF es # <<>> THEN [start |-> i, end |-> Head(es)]
          ELSE SearchFrom(re, s, i + 1)

(***************************************************************************)
(* The regular expressions of the source.                                  *)
(***************************************************************************)
Num1 == Plus(Cls(NumChar))

Term == Seq1(<<Star(Cls(NumChar)), Cls(Letter)>>)

Squared == Alt(Seq1(<<Ch("^"), Ch("2")>>), Ch("sup2"))

\* ([a-z])\s*=\s*([0-9.]*[a-z])\s*[+\-]\s*([0-9.]+)
\*   | ([0-9.]*[a-z])\s*[+\-]\s*([0-9.]+)\s*=\s*([0-9.]+)
linearEquationPattern ==
  Alt(Seq1(<<Cls(Letter), Ws, Ch("="), Ws, Term, Ws, Cls(PlusMinus), Ws,
             Num1>>),
      Seq1(<<Term, Ws, Cls(PlusMinus), Ws, Num1, Ws, Ch("="), Ws, Num1>>))

\* ([a-z])\s*=\s*([a-z])(\^2|\(sup2))\s*[+\-]\s*([0-9.]*[a-z])\s*[+\-]\s*([0-9.]+)
\*   | ([a-z])(\^2|\(sup2))\s*[+\-]\s*([0-9.]*[a-z])\s*[+\-]\s*([0-9.]+)\s*=\s*([0-9.]+)
quadraticPattern ==
  Alt(Seq1(<<Cls(Letter), Ws, Ch("="), Ws, Cls(Letter), Squared, Ws,
             Cls(PlusMinus), Ws, Term, Ws, Cls(PlusMinus), Ws, Num1>>),
      Seq1(<<Cls(Letter), Squared, Ws, Cls(PlusMinus), Ws, Term, Ws,
             Cls(PlusMinus), Ws, Num1, Ws, Ch("="), Ws, Num1>>))

\* ([a-z])\s*=\s*([0-9.a-z+\-*/^()]+)
mathPattern == Seq1(<<Cls(Letter), Ws, Ch("="), Ws, Plus(Cls(MathChar))>>)

Dot == Cls(AnyChar \ {"\n"})

problemPatterns ==
  << \* solve\s+for\s+([a-z])\s*:\s*(.*?)
     Seq1(<<Word(<<"s","o","l","v","e">>), Ws1, Word(<<"f","o","r">>), Ws1,
            Cls(Letter), Ws, Ch(":"), Ws, LazyStar(Dot)>>),
     \* find\s+the\s+value\s+of\s+([a-z])\s+
     Seq1(<<Word(<<"f","i","n","d">>), Ws1, Word(<<"t","h","e">>), Ws1,
            Word(<<"v","a","l","u","e">>), Ws1, Word(<<"o","f">>), Ws1,
            Cls(Letter), Ws1>>),
     \* calculate\s+the\s+([a-z])\s+
     Seq1(<<Word(<<"c","a","l","c","u","l","a","t","e">>), Ws1,
            Word(<<"t","h","e">>), Ws1, Cls(Letter), Ws1>>),
     \* determine\s+([a-z])\s+
     Seq1(<<Word(<<"d","e","t","e","r","m","i","n","e">>), Ws1, Cls(Letter),
            Ws1>>),
     \* ([a-z0-9.]+[a-z])\s*[+\-*/]\s*([0-9.]+)\s*=\s*([0-9.]+)
     Seq1(<<Plus(Cls(TermChar)), Cls(Letter), Ws, Cls(Operator4), Ws, Num1, Ws,
            Ch("="), Ws, Num1>>) >>

\* ([0-9.]*[a-z])\s*[+\-]\s*([0-9.]+)\s*=\s*([0-9.]+)
solvablePattern ==
  Seq1(<<Term, Ws, Cls(PlusMinus), Ws, Num1, Ws, Ch("="), Ws, Num1>>)

(***************************************************************************)
(* The parsed document (the result of DOMParser.parseFromString).  A node  *)
(* is an element or a text node (tag "#text"); parent 0 is <body>.         *)
(***************************************************************************)
El(tag, parent, cls, dtype, id) ==
  [tag |-> tag, parent |-> parent, cls |-> cls, dtype |-> dtype, id |-> id,
   text |-> <<>>]

Tx(parent, text) ==
  [tag |-> "#text", parent |-> parent, cls |-> {}, dtype |-> "", id |-> <<>>,
   text |-> text]

IsElement(doc, n) == doc[n].tag # "#text"

RECURSIVE SortedSeq(_)
SortedSeq(S) ==
  IF S = {} THEN <<>>
  ELSE LET m == CHOOSE x \in S : \A y \in S : x <= y
       IN <<m>> \o SortedSeq(S \ {m})

RECURSIVE IsAncestor(_, _, _)
IsAncestor(doc, a, n) ==
  LET p == doc[n].parent
  IN p # 0 /\ (p = a \/ IsAncestor(doc, a, p))

\* Node.textContent: the text of the descendant text nodes, in document order
RECURSIVE TextFrom(_, _, _)
TextFrom(doc, e, n) ==
  IF n > Len(doc) THEN <<>>
  ELSE (IF doc[n].tag = "#text" /\ IsAncestor(doc, e, n)
        THEN doc[n].text ELSE <<>>) \o TextFrom(doc, e, n + 1)

TextContent(doc, e) == TextFrom(doc, e, e + 1)

\* Element.children
Children(doc, e) ==
  SortedSeq({n \in 1..Len(doc) : IsElement(doc, n) /\ doc[n].parent = e})

NextElementSibling(doc, e) ==
  LET later == {n \in (e + 1)..Len(doc) :
                  IsElement(doc, n) /\ doc[n].parent = doc[e].parent}
  IN IF later = {} THEN 0 ELSE CHOOSE n \in later : \A m \in later : n <= m

PreviousElementSibling(doc, e) ==
  LET earlier == {n \in 1..(e - 1) :
                    IsElement(doc, n) /\ doc[n].parent = doc[e].parent}
  IN IF earlier = {} THEN 0 ELSE CHOOSE n \in earlier : \A m \in earlier : n >= m

\* Document.querySelectorAll for a type selector: matches in document order
ByTag(doc, tag) == SortedSeq({n \in 1..Len(doc) : doc[n].tag = tag})

\* "h + p": a p whose previous element sibling is the heading h
AfterHeading(doc, h) ==
  SortedSeq({n \in 1..Len(doc) :
               /\ doc[n].tag = "p"
               /\ PreviousElementSibling(doc, n) # 0
               /\ doc[PreviousElementSibling(doc, n)].tag = h})

ByClass(doc, c) == SortedSeq({n \in 1..Len(doc) : c \in doc[n].cls})

ByDataType(doc, v) ==
  SortedSeq({n \in 1..Len(doc) : IsElement(doc, n) /\ doc[n].dtype = v})

\* "p:has(strong)"
ParagraphsWithStrong(doc) ==
  SortedSeq({n \in 1..Len(doc) :
               /\ doc[n].tag = "p"
               /\ \E m \in 1..Len(doc) :
                    doc[m].tag = "strong" /\ IsAncestor(doc, n, m)})

\* "div:has(p:first-child)": a div with some descendant p that is the first
\* element child of its own parent
DivsWithFirstChildParagraph(doc) ==
  SortedSeq({n \in 1..Len(doc) :
               /\ doc[n].tag = "div"
               /\ \E m \in 1..Len(doc) :
                    /\ doc[m].tag = "p"
                    /\ IsAncestor(doc, n, m)
                    /\ PreviousElementSibling(doc, m) = 0})

\* Element.closest(".c"): the element itself or its nearest ancestor
RECURSIVE Closest(_, _, _)
Closest(doc, e, c) ==
  IF e = 0 THEN 0
  ELSE IF c \in doc[e].cls THEN e
  ELSE Closest(doc, doc[e].parent, c)

\* Element.querySelector(".c"): the first descendant carrying the class
FirstDescendantByClass(doc, e, c) ==
  LET ds == {n \in 1..Len(doc) : c \in doc[n].cls /\ IsAncestor(doc, e, n)}
  IN IF ds = {} THEN 0 ELSE CHOOSE n \in ds : \A m \in ds : n <= m

\* container.querySelectorAll("li, p, div.step")
StepElements(doc, e) ==
  SortedSeq({n \in 1..Len(doc) :
               /\ IsAncestor(doc, e, n)
               /\ \/ doc[n].tag \in {"li", "p"}
                  \/ doc[n].tag = "div" /\ "step" \in doc[n].cls})

(***************************************************************************)
(* Document.querySelector("#solution-" + id).  The id of the problem       *)
(* element is pasted into the selector unescaped: a character that is not  *)
(* a CSS name character makes the selector a syntax error, and             *)
(* querySelector throws.  Ids are bounded to name characters and "(".      *)
(***************************************************************************)
NameChar == Letter \cup Digit \cup {"-", "_"}

SolutionPrefix == <<"s","o","l","u","t","i","o","n","-">>

SelectorThrows(id) == \E i \in 1..Len(id) : id[i] \notin NameChar

ById(doc, id) ==
  LET ds == {n \in 1..Len(doc) : IsElement(doc, n) /\ doc[n].id = id}
  IN IF ds = {} THEN 0 ELSE CHOOSE n \in ds : \A m \in ds : n <= m

(***************************************************************************)
(* The documents analysed: a leading piece of lesson markup and up to      *)
(* MaxFollowers pieces that follow it, written without white space between *)
(* the tags.                                                               *)
(***************************************************************************)
\* "y = 2x + 1"
TLinear ==
  <<"y"," ","="," ","2","x"," ","+"," ","1">>

\* "y = x^2 + 2x + 1"
TQuadratic ==
  <<"y"," ","="," ","x","^","2"," ","+"," ","2","x"," ","+"," ","1">>

\* "x^2 + 3x - 4 = 0"
TQuadraticRight ==
  <<"x","^","2"," ","+"," ","3","x"," ","-"," ","4"," ","="," ","0">>

\* "y = x(sup2) + 2x + 1"
TQuadraticSup ==
  <<"y"," ","="," ","x","sup2"," ","+"," ","2","x"," ","+"," ","1">>

\* "f = 3*(a+1)"
TGeneral ==
  <<"f"," ","="," ","3","*","(","a","+","1",")">>

\* "Solve 3N - 5 = 10 now"
TUpperTerm ==
  <<"S","o","l","v","e"," ","3","N"," ","-"," ","5"," ","="," ","1","0"," ",
    "n","o","w">>

\* "  2x+3=7  "
TPadded ==
  <<" "," ","2","x","+","3","=","7"," "," ">>

\* "Hello world"
TPlain ==
  <<"H","e","l","l","o"," ","w","o","r","l","d">>

\* "ab"
TShort ==
  <<"a","b">>

\* "Solve for x: 2x + 3 = 7"
TSolve ==
  <<"S","o","l","v","e"," ","f","o","r"," ","x",":"," ","2","x"," ","+"," ",
    "3"," ","="," ","7">>

\* "4x + 8 = 20"
TRaw ==
  <<"4","x"," ","+"," ","8"," ","="," ","2","0">>

\* "2x - 3 = 7"
TMinus ==
  <<"2","x"," ","-"," ","3"," ","="," ","7">>

\* "0x + 3 = 7"
TZero ==
  <<"0","x"," ","+"," ","3"," ","="," ","7">>

\* "0x + 7 = 7"
TZeroOverZero ==
  <<"0","x"," ","+"," ","7"," ","="," ","7">>

\* "Find the value of x now"
TFind ==
  <<"F","i","n","d"," ","t","h","e"," ","v","a","l","u","e"," ","o","f"," ",
    "x"," ","n","o","w">>

\* "Note"
TNote ==
  <<"N","o","t","e">>

\* " 4x + 8 = 20"
TAfterNote ==
  <<" ","4","x"," ","+"," ","8"," ","="," ","2","0">>

\* "Problem"
THeading ==
  <<"P","r","o","b","l","e","m">>

\* "2x = 4 subtract 3"
TStepA ==
  <<"2","x"," ","="," ","4"," ","s","u","b","t","r","a","c","t"," ","3">>

\* "x = 2"
TStepB ==
  <<"x"," ","="," ","2">>

\* "!?"
TStepC ==
  <<"!","?">>

\* "p1"
IdP1 ==
  <<"p","1">>

\* "a(b"
IdBad ==
  <<"a","(","b">>

\* "solution-p1"
IdSolutionP1 ==
  <<"s","o","l","u","t","i","o","n","-","p","1">>

NoId == <<>>

Shift(frag, off) ==
  [i \in 1..Len(frag) |->
     [frag[i] EXCEPT !.parent = IF @ = 0 THEN 0 ELSE @ + off]]

Concat(a, b) == a \o Shift(b, Len(a))

\* <p class=... id=...>text</p>
Paragraph(cls, id, text) == <<El("p", 0, cls, "", id), Tx(1, text)>>

\* <h>Problem</h><p>text</p>
HeadingThenParagraph(h, text) ==
  <<El(h, 0, {}, "", NoId), Tx(1, THeading), El("p", 0, {}, "", NoId),
    Tx(3, text)>>

\* <div><h>Problem</h><p>text</p></div>
SectionOf(h, text) ==
  <<El("div", 0, {}, "", NoId), El(h, 1, {}, "", NoId), Tx(2, THeading),
    El("p", 1, {}, "", NoId), Tx(4, text)>>

\* <tag><li>a</li><li>b</li></tag>
ListOf(tag, a, b) ==
  <<El(tag, 0, {}, "", NoId), El("li", 1, {}, "", NoId), Tx(2, a),
    El("li", 1, {}, "", NoId), Tx(4, b)>>

\* <div id=...><p>a</p><p>b</p></div>
DivOfTwo(id, a, b) ==
  <<El("div", 0, {}, "", id), El("p", 1, {}, "", NoId), Tx(2, a),
    El("p", 1, {}, "", NoId), Tx(4, b)>>

\* <div><p>a</p></div>
DivOfOne(a) == <<El("div", 0, {}, "", NoId), El("p", 1, {}, "", NoId), Tx(2, a)>>

\* <p><strong>Note</strong> text</p>
ParagraphWithStrong(text) ==
  <<El("p", 0, {}, "", NoId), El("strong", 1, {}, "", NoId), Tx(2, TNote),
    Tx(1, text)>>

\* <h>Problem</h><p class="problem"><strong>Note</strong>text</p>
MarkedParagraphAfter(h, text) ==
  <<El(h, 0, {}, "", NoId), Tx(1, THeading),
    El("p", 0, {"problem"}, "", NoId), El("strong", 3, {}, "", NoId),
    Tx(4, TNote), Tx(3, text)>>

\* <div class="problem-container"><p class="problem" id=...>text</p>
\*   <div class="solution"><div class="step">a</div><span>b</span></div></div>
ProblemContainer(id, text, a, b) ==
  <<El("div", 0, {"problem-container"}, "", NoId),
    El("p", 1, {"problem"}, "", id), Tx(2, text),
    El("div", 1, {"solution"}, "", NoId),
    El("div", 4, {"step"}, "", NoId), Tx(5, a),
    El("span", 4, {}, "", NoId), Tx(7, b)>>

Leads ==
  { Paragraph({}, NoId, x) :
      x \in {TLinear, TQuadratic, TQuadraticRight, TQuadraticSup, TGeneral,
             TPlain, TShort, TUpperTerm} }
  \cup { HeadingThenParagraph("h3", x) :
           x \in {TSolve, TRaw, TMinus, TZero, TZeroOverZero, TFind} }
  \cup { HeadingThenParagraph("h2", TRaw), HeadingThenParagraph("h4", TPlain),
         HeadingThenParagraph("h4", TPadded) }
  \cup { Paragraph({"problem"}, id, TRaw) : id \in {NoId, IdP1, IdBad} }
  \cup { <<El("div", 0, {}, "problem", NoId), Tx(1, TSolve)>>,
         <<El("span", 0, {}, "", NoId), Tx(1, TLinear)>>,
         ParagraphWithStrong(TAfterNote),
         SectionOf("h3", TFind),
         MarkedParagraphAfter("h3", TAfterNote),
         ProblemContainer(IdBad, TRaw, TStepA, TLinear) }

Followers ==
  { <<El("ol", 0, {}, "", NoId)>>,
    ListOf("ol", TStepA, TStepB),
    ListOf("ul", TStepB, TStepC),
    DivOfTwo(NoId, TStepA, TQuadratic),
    DivOfTwo(IdSolutionP1, TStepA, TStepB),
    DivOfOne(TRaw),
    Paragraph({}, NoId, TLinear) }

MaxFollowers == 2

RECURSIVE ConcatAll(_)
ConcatAll(fs) ==
  IF fs = <<>> THEN <<>> ELSE Concat(Head(fs), ConcatAll(Tail(fs)))

Documents ==
  { ConcatAll(<<lead>> \o fs) :
      lead \in Leads,
      fs \in UNION { [1..n -> Followers] : n \in 0..MaxFollowers } }

(***************************************************************************)
(* Matching.  The same few texts sit in many documents: the match of each  *)
(* pattern of the source on each element text of the markup is computed    *)
(* once, by the engine above, and looked up afterwards.                    *)
(***************************************************************************)
Patterns ==
  {linearEquationPattern, quadraticPattern, mathPattern, solvablePattern}
    \cup {problemPatterns[i] : i \in 1..Len(problemPatterns)}

\* the textContent of every node of every piece of markup
ElementTexts ==
  UNION { {TextContent(f, e) : e \in 1..Len(f)} : f \in Leads \cup Followers }

SearchTable ==
  [re \in Patterns |-> [s \in ElementTexts |-> SearchFrom(re, s, 1)]]

\* String.prototype.match / RegExp.prototype.test without the g flag
Search(re, s) ==
  IF re \in Patterns /\ s \in ElementTexts THEN SearchTable[re][s]
  ELSE SearchFrom(re, s, 1)

Test(re, s) == Search(re, s).start # 0

Matched(m, s) == SubSeq(s, m.start, m.end - 1)

(***************************************************************************)
(* String helpers: trim, replace(first occurrence), number parsing and     *)
(* formatting.  A number is [kind, n, d]: the rational n/d (d > 0) for     *)
(* kind "num", or NaN / Infinity / -Infinity.  The inputs are bounded to   *)
(* values on which binary floating point is exact.                         *)
(***************************************************************************)
RECURSIVE TrimStart(_)
TrimStart(s) ==
  IF s # <<>> /\ Head(s) \in Space THEN TrimStart(Tail(s)) ELSE s

RECURSIVE TrimEnd(_)
TrimEnd(s) ==
  IF s # <<>> /\ s[Len(s)] \in Space THEN TrimEnd(SubSeq(s, 1, Len(s) - 1))
  ELSE s

Trim(s) == TrimEnd(TrimStart(s))

\* String.prototype.indexOf, 1-based, 0 when absent
IndexOf(s, sub) ==
  LET at == {i \in 1..(Len(s) - Len(sub) + 1) :
               SubSeq(s, i, i + Len(sub) - 1) = sub}
  IN IF at = {} THEN 0 ELSE CHOOSE i \in at : \A j \in at : i <= j

\* s.replace(sub, ""): the first occurrence of sub removed
RemoveFirst(s, sub) ==
  LET i == IndexOf(s, sub)
  IN IF i = 0 THEN s
     ELSE SubSeq(s, 1, i - 1) \o SubSeq(s, i + Len(sub), Len(s))

DigitSeq == <<"0","1","2","3","4","5","6","7","8","9">>

DigitValue(c) == (CHOOSE i \in 1..10 : DigitSeq[i] = c) - 1

RECURSIVE DigitsValue(_)
DigitsValue(s) ==
  IF s = <<>> THEN 0
  ELSE 10 * DigitsValue(SubSeq(s, 1, Len(s) - 1)) + DigitValue(s[Len(s)])

RECURSIVE Pow10(_)
Pow10(k) == IF k = 0 THEN 1 ELSE 10 * Pow10(k - 1)

RECURSIVE LeadingDigits(_)
LeadingDigits(s) ==
  IF s # <<>> /\ Head(s) \in Digit THEN <<Head(s)>> \o LeadingDigits(Tail(s))
  ELSE <<>>

Num(n, d) == [kind |-> "num", n |-> n, d |-> d]

NaN == [kind |-> "nan", n |-> 0, d |-> 1]

Infinity(sign) == [kind |-> "inf", n |-> sign, d |-> 1]

\* parseFloat on a string of digits and dots: the longest prefix that is a
\* decimal literal, NaN when there is none
ParseFloat(s) ==
  LET ip == LeadingDigits(s)
      rest == SubSeq(s, Len(ip) + 1, Len(s))
      fp == IF rest # <<>> /\ Head(rest) = "." THEN LeadingDigits(Tail(rest))
            ELSE <<>>
  IN IF ip = <<>> /\ fp = <<>> THEN NaN
     ELSE Num(DigitsValue(ip) * Pow10(Len(fp)) + DigitsValue(fp),
              Pow10(Len(fp)))

NumSub(a, b) ==
  IF a.kind = "nan" \/ b.kind = "nan" THEN NaN
  ELSE Num(a.n * b.d - b.n * a.d, a.d * b.d)

\* a division that answers 0 where the divisor is 0
NumDiv_ZeroGuard(a, b) ==
  IF a.kind = "nan" \/ b.kind = "nan" THEN NaN
  ELSE IF b.n = 0 THEN Num(0, 1)
  ELSE IF b.n > 0 THEN Num(a.n * b.d, a.d * b.n)
  ELSE Num(-(a.n * b.d), a.d * (-b.n))

NumDiv(a, b) ==
  IF a.kind = "nan" \/ b.kind = "nan" THEN NaN
  ELSE IF b.n = 0
       THEN (IF a.n = 0 THEN NaN ELSE Infinity(IF a.n > 0 THEN 1 ELSE -1))
  ELSE IF b.n > 0 THEN Num(a.n * b.d, a.d * b.n)
  ELSE Num(-(a.n * b.d), a.d * (-b.n))

RECURSIVE FormatNat(_)
FormatNat(n) ==
  IF n < 10 THEN <<DigitSeq[n + 1]>>
  ELSE FormatNat(n \div 10) \o <<DigitSeq[(n % 10) + 1]>>

\* the fractional digits of r/d (r < d) by long division
RECURSIVE FractionDigits(_, _, _)
FractionDigits(r, d, left) ==
  IF r = 0 \/ left = 0 THEN <<>>
  ELSE <<DigitSeq[((10 * r) \div d) + 1]>>
       \o FractionDigits((10 * r) % d, d, left - 1)

MaxFractionDigits == 17

\* Number.prototype.toString as used by a template literal
FormatNumber(x) ==
  IF x.kind = "nan" THEN <<"N","a","N">>
  ELSE IF x.kind = "inf"
       THEN (IF x.n < 0 THEN <<"-">> ELSE <<>>)
            \o <<"I","n","f","i","n","i","t","y">>
  ELSE LET a == IF x.n < 0 THEN -x.n ELSE x.n
           frac == FractionDigits(a % x.d, x.d, MaxFractionDigits)
       IN (IF x.n < 0 THEN <<"-">> ELSE <<>>)
          \o FormatNat(a \div x.d)
          \o (IF frac = <<>> THEN <<>> ELSE <<".">> \o frac)

(***************************************************************************)
(* Capture groups: the first group of a pattern pre (grp) post, found     *)
(* with the engine's backtracking order.                                   *)
(***************************************************************************)
NoGroup == [gs |-> 0, ge |-> 0]

RECURSIVE GroupEnds(_, _, _, _)
GroupEnds(post, s, j, ks) ==
  IF ks = <<>> THEN NoGroup
  ELSE IF Ends(post, s, Head(ks)) # <<>> THEN [gs |-> j, ge |-> Head(ks)]
  ELSE GroupEnds(post, s, j, Tail(ks))

RECURSIVE GroupStarts(_, _, _, _)
GroupStarts(grp, post, s, js) ==
  IF js = <<>> THEN NoGroup
  ELSE LET g == GroupEnds(post, s, Head(js), Ends(grp, s, Head(js)))
       IN IF g.gs # 0 THEN g ELSE GroupStarts(grp, post, s, Tail(js))

RECURSIVE GroupFrom(_, _, _, _, _)
GroupFrom(pre, grp, post, s, i) ==
  IF i > Len(s) + 1 THEN NoGroup
  ELSE LET g == GroupStarts(grp, post, s, Ends(pre, s, i))
       IN IF g.gs # 0 THEN g ELSE GroupFrom(pre, grp, post, s, i + 1)

\* s.match(/pre(grp)post/i)?.[1], or Absent when there is no match
Absent == <<"\n", "absent">>

Group1(pre, grp, post, s) ==
  LET g == GroupFrom(pre, grp, post, s, 1)
  IN IF g.gs = 0 THEN Absent ELSE SubSeq(s, g.gs, g.ge - 1)

Empty == Seq1(<<>>)

(***************************************************************************)
(* detectEquationPatterns                                                  *)
(***************************************************************************)
LinearConfidence == 85

QuadraticConfidence == 90

GeneralConfidence == 70

ProblemConfidence == 80

RangeMin == -10

RangeMax == 10

\* the variable before "=", /([a-z])\s*=/i
BeforeEquals(eq) == Group1(Empty, Cls(Letter), Seq1(<<Ws, Ch("=")>>), eq)

FirstLetter(s) == Group1(Empty, Cls(Letter), Empty, s)

\* the letter taken as it is written
LinearVariable_KeepCase(eq) ==
  LET g == IF BeforeEquals(eq) # Absent THEN BeforeEquals(eq)
           ELSE Group1(Empty, Term, Empty, eq)
  IN IF g # Absent /\ g # <<>> /\ FirstLetter(g) # Absent
     THEN FirstLetter(g)[1] ELSE "x"

LinearVariable(eq) ==
  LET g == IF BeforeEquals(eq) # Absent THEN BeforeEquals(eq)
           ELSE Group1(Empty, Term, Empty, eq)
  IN IF g # Absent /\ g # <<>> /\ FirstLetter(g) # Absent
     THEN ToLowerCase(FirstLetter(g)[1]) ELSE "x"

QuadraticVariable(eq) ==
  LET g == IF BeforeEquals(eq) # Absent THEN BeforeEquals(eq)
           ELSE Group1(Empty, Cls(Letter), Squared, eq)
  IN IF g # Absent /\ g # <<>> THEN ToLowerCase(g[1]) ELSE "x"

GeneralVariable(eq) ==
  LET g == BeforeEquals(eq)
  IN IF g # Absent /\ g # <<>> THEN ToLowerCase(g[1]) ELSE "x"


\* range and initialValues keyed by the default variable
EquationParameters_DefaultKey(eq, variable) ==
  [equation |-> Trim(eq),
   variables |-> <<variable>>,
   range |-> [v \in {"x"} |-> <<RangeMin, RangeMax>>],
   initialValues |-> [v \in {"x"} |-> 0],
   showGraph |-> TRUE,
   showFormula |-> TRUE]

EquationParameters(eq, variable) ==
  [equation |-> Trim(eq),
   variables |-> <<variable>>,
   range |-> [v \in {variable} |-> <<RangeMin, RangeMax>>],
   initialValues |-> [v \in {variable} |-> 0],
   showGraph |-> TRUE,
   showFormula |-> TRUE]

\* a confidence that grows with the number of steps found
Suggestion_StepsRaiseConfidence(type, e, description, confidence, parameters) ==
  [type |-> type, sourceElement |-> e, description |-> description,
   confidence |-> IF type = "problem-solver"
                  THEN confidence + 5 * Len(parameters.steps)
                  ELSE confidence,
   blockParameters |-> parameters]

\* every suggestion given the confidence of the problem rule
Suggestion_OneConfidence(type, e, description, confidence, parameters) ==
  [type |-> type, sourceElement |-> e, description |-> description,
   confidence |-> ProblemConfidence, blockParameters |-> parameters]

Suggestion(type, e, description, confidence, parameters) ==
  [type |-> type, sourceElement |-> e, description |-> description,
   confidence |-> confidence, blockParameters |-> parameters]


\* the quadratic pattern tried before the linear one
EquationRule_QuadraticFirst(text) ==
  IF Test(quadraticPattern, text) THEN "quadratic"
  ELSE IF Test(linearEquationPattern, text) THEN "linear"
  ELSE IF Test(mathPattern, text) THEN "general"
  ELSE "none"

\* the rule that classifies a text: the first pattern that matches
EquationRule(text) ==
  IF Test(linearEquationPattern, text) THEN "linear"
  ELSE IF Test(quadraticPattern, text) THEN "quadratic"
  ELSE IF Test(mathPattern, text) THEN "general"
  ELSE "none"

MinEquationLength == 3

\* one iteration of the loop: what the element adds to the suggestions
EquationSuggestions(doc, e) ==
  LET text == TextContent(doc, e)
      rule == EquationRule(text)
  IN IF Len(text) < MinEquationLength \/ rule = "none" THEN <<>>
     ELSE IF rule = "linear"
     THEN LET eq == Matched(Search(linearEquationPattern, text), text)
          IN <<Suggestion("equationExplorer", e,
                          "Interactive Linear Equation Explorer",
                          LinearConfidence,
                          EquationParameters(eq, LinearVariable(eq)))>>
     ELSE IF rule = "quadratic"
     THEN LET eq == Matched(Search(quadraticPattern, text), text)
          IN <<Suggestion("equationExplorer", e,
                          "Interactive Quadratic Function Explorer",
                          QuadraticConfidence,
                          EquationParameters(eq, QuadraticVariable(eq)))>>
     ELSE LET eq == Matched(Search(mathPattern, text), text)
          IN <<Suggestion("equationExplorer", e,
                          "Interactive Function Explorer",
                          GeneralConfidence,
                          EquationParameters(eq, GeneralVariable(eq)))>>

potentialEquations(doc) ==
  ByTag(doc, "p") \o ByTag(doc, "div") \o ByTag(doc, "span")
    \o ByTag(doc, "li")

RECURSIVE EquationLoop(_, _)
EquationLoop(doc, pool) ==
  IF pool = <<>> THEN <<>>
  ELSE EquationSuggestions(doc, Head(pool)) \o EquationLoop(doc, Tail(pool))

detectEquationPatterns(doc, suggestions) ==
  suggestions \o EquationLoop(doc, potentialEquations(doc))

(***************************************************************************)
(* detectProblemSolverPatterns                                             *)
(***************************************************************************)
potentialProblems(doc) ==
  AfterHeading(doc, "h2") \o AfterHeading(doc, "h3") \o AfterHeading(doc, "h4")
    \o ByClass(doc, "problem") \o ByDataType(doc, "problem")
    \o ParagraphsWithStrong(doc) \o DivsWithFirstChildParagraph(doc)

\* the loop over problemPatterns: the match of the first pattern that
\* matches, or NoMatch
RECURSIVE FirstPatternMatch(_, _)
FirstPatternMatch(patterns, text) ==
  IF patterns = <<>> THEN NoMatch
  ELSE LET m == Search(Head(patterns), text)
       IN IF m.start # 0 THEN m ELSE FirstPatternMatch(Tail(patterns), text)

ProblemMatch(text) == FirstPatternMatch(problemPatterns, text)

\* findNextSibling
RECURSIVE NextSiblingFrom(_, _, _)
NextSiblingFrom(doc, sibling, tagName) ==
  IF sibling = 0 THEN 0
  ELSE IF doc[sibling].tag = tagName THEN sibling
  ELSE NextSiblingFrom(doc, NextElementSibling(doc, sibling), tagName)

findNextSibling(doc, element, tagName) ==
  NextSiblingFrom(doc, NextElementSibling(doc, element), tagName)

\* the unordered list looked for before the ordered one
findFollowingSteps_ListsSwapped(doc, problemElement) ==
  LET orderedList == findNextSibling(doc, problemElement, "ol")
      unorderedList == findNextSibling(doc, problemElement, "ul")
      divContainer == findNextSibling(doc, problemElement, "div")
  IN IF unorderedList # 0 THEN unorderedList
     ELSE IF orderedList # 0 THEN orderedList
     ELSE IF divContainer # 0 /\ Len(Children(doc, divContainer)) > 1
          THEN divContainer
     ELSE 0

findFollowingSteps(doc, problemElement) ==
  LET orderedList == findNextSibling(doc, problemElement, "ol")
      unorderedList == findNextSibling(doc, problemElement, "ul")
      divContainer == findNextSibling(doc, problemElement, "div")
  IN IF orderedList # 0 THEN orderedList
     ELSE IF unorderedList # 0 THEN unorderedList
     ELSE IF divContainer # 0 /\ Len(Children(doc, divContainer)) > 1
          THEN divContainer
     ELSE 0

\* the solutionContainer expression: the container found (0 for none), or
\* raised when querySelector rejects the selector built from the id
SolutionContainer(doc, element) ==
  LET pc == Closest(doc, element, "problem-container")
      inside == IF pc = 0 THEN 0
                ELSE FirstDescendantByClass(doc, pc, "solution")
  IN IF inside # 0 THEN [raised |-> FALSE, node |-> inside]
     ELSE IF SelectorThrows(doc[element].id)
          THEN [raised |-> TRUE, node |-> 0]
     ELSE LET byId == ById(doc, SolutionPrefix \o doc[element].id)
          IN [raised |-> FALSE,
              node |-> IF byId # 0 THEN byId
                       ELSE findFollowingSteps(doc, element)]

\* the labels counted from zero
StepLabel_FromZero(n) == <<"S","t","e","p"," ">> \o FormatNat(n - 1)

StepLabel(n) == <<"S","t","e","p"," ">> \o FormatNat(n)

Step(description, expression, explanation) ==
  [description |-> description, expression |-> expression,
   explanation |-> explanation]

\* stepElements.map(...): the step made from the index-th step element
ExtractedStep(doc, stepElement, index) ==
  LET stepText == TextContent(doc, stepElement)
      m == Search(Plus(Cls(StepChar)), stepText)
      expression == IF m.start # 0 THEN Matched(m, stepText)
                    ELSE StepLabel(index + 1)
  IN Step(StepLabel(index + 1), expression,
          Trim(RemoveFirst(stepText, expression)))

ExtractedSteps(doc, container) ==
  LET stepElements == StepElements(doc, container)
  IN [i \in 1..Len(stepElements) |->
        ExtractedStep(doc, stepElements[i], i - 1)]

OrElse(g, default) == IF g = Absent \/ g = <<>> THEN default ELSE g

\* "Isolate the variable term"
IsolateLabel ==
  <<"I","s","o","l","a","t","e"," ","t","h","e"," ","v","a","r","i","a","b",
    "l","e"," ","t","e","r","m">>

\* "Solve for the variable"
SolveLabel ==
  <<"S","o","l","v","e"," ","f","o","r"," ","t","h","e"," ","v","a","r","i",
    "a","b","l","e">>

\* "Move constant to the right side by subtracting "
MovePrefix ==
  <<"M","o","v","e"," ","c","o","n","s","t","a","n","t"," ","t","o"," ","t",
    "h","e"," ","r","i","g","h","t"," ","s","i","d","e"," ","b","y"," ","s",
    "u","b","t","r","a","c","t","i","n","g"," ">>

\* " from both sides."
MoveSuffix ==
  <<" ","f","r","o","m"," ","b","o","t","h"," ","s","i","d","e","s",".">>

\* "Divide both sides by the coefficient "
DividePrefix ==
  <<"D","i","v","i","d","e"," ","b","o","t","h"," ","s","i","d","e","s"," ",
    "b","y"," ","t","h","e"," ","c","o","e","f","f","i","c","i","e","n","t",
    " ">>

\* " to find the value of "
DivideMiddle ==
  <<" ","t","o"," ","f","i","n","d"," ","t","h","e"," ","v","a","l","u","e",
    " ","o","f"," ">>

\* the two steps synthesized from the matched text of a linear equation
SynthesizedSteps(equation) ==
  LET variable == OrElse(FirstLetter(equation), <<"x">>)
      coefficient ==
        ParseFloat(OrElse(Group1(Empty, Star(Cls(NumChar)), Cls(Letter),
                                 equation), <<"1">>))
      constant ==
        ParseFloat(OrElse(Group1(Seq1(<<Cls(Letter), Ws, Cls(PlusMinus), Ws>>),
                                 Num1, Empty, equation), <<"0">>))
      rightSide ==
        ParseFloat(OrElse(Group1(Seq1(<<Ch("="), Ws>>), Num1, Empty,
                                 equation), <<"0">>))
      isolatedVariable == NumSub(rightSide, constant)
      solution == NumDiv(isolatedVariable, coefficient)
  IN << Step(IsolateLabel,
             FormatNumber(coefficient) \o variable \o <<" ", "=", " ">>
               \o FormatNumber(NumSub(rightSide, constant)),
             MovePrefix \o FormatNumber(constant) \o MoveSuffix),
        Step(SolveLabel,
             variable \o <<" ", "=", " ">> \o FormatNumber(solution),
             DividePrefix \o FormatNumber(coefficient) \o DivideMiddle
               \o variable \o <<".">>) >>

\* the steps for a problem element without a solution container
BasicSteps(text, problemMatch) ==
  LET equation == Matched(problemMatch, text)
  IN IF problemMatch.start # 0 /\ IndexOf(equation, <<"=">>) # 0
        /\ Test(solvablePattern, equation)
     THEN SynthesizedSteps(equation)
     ELSE <<>>

ProblemParameters(text, steps) ==
  [problem |-> Trim(text),
   steps |-> steps,
   showHints |-> TRUE,
   progressiveReveal |-> TRUE,
   requireUserInput |-> FALSE,
   feedbackLevel |-> "detailed",
   solutionVisible |-> "after-attempt"]

MinProblemLength == 10


\* a suggestion also for a problem without steps
EmitProblem_NoGuard(e, text, steps) ==
  <<Suggestion("problem-solver", e, "Interactive Problem Solver",
               ProblemConfidence, ProblemParameters(text, steps))>>

\* the final guard of the loop body: a suggestion only when there are steps
EmitProblem(e, text, steps) ==
  IF Len(steps) > 0
  THEN <<Suggestion("problem-solver", e, "Interactive Problem Solver",
                    ProblemConfidence, ProblemParameters(text, steps))>>
  ELSE <<>>

\* steps synthesized also when the container holds no step element
ProblemSuggestions_FallBack(doc, e) ==
  LET text == TextContent(doc, e)
      problemMatch == ProblemMatch(text)
  IN IF Len(text) < MinProblemLength \/ problemMatch.start = 0
     THEN [raised |-> FALSE, list |-> <<>>]
     ELSE LET c == SolutionContainer(doc, e)
          IN IF c.raised THEN [raised |-> TRUE, list |-> <<>>]
             ELSE [raised |-> FALSE,
                   list |-> EmitProblem(e, text,
                              IF c.node # 0
                                 /\ ExtractedSteps(doc, c.node) # <<>>
                              THEN ExtractedSteps(doc, c.node)
                              ELSE BasicSteps(text, problemMatch))]

\* one iteration of the loop: the suggestions the element adds, or raised
ProblemSuggestions(doc, e) ==
  LET text == TextContent(doc, e)
      problemMatch == ProblemMatch(text)
  IN IF Len(text) < MinProblemLength \/ problemMatch.start = 0
     THEN [raised |-> FALSE, list |-> <<>>]
     ELSE LET c == SolutionContainer(doc, e)
          IN IF c.raised THEN [raised |-> TRUE, list |-> <<>>]
             ELSE [raised |-> FALSE,
                   list |-> EmitProblem(e, text,
                              IF c.node # 0 THEN ExtractedSteps(doc, c.node)
                              ELSE BasicSteps(text, problemMatch))]

RECURSIVE ProblemLoop(_, _, _)
ProblemLoop(doc, pool, suggestions) ==
  IF pool = <<>> THEN [raised |-> FALSE, list |-> suggestions]
  ELSE LET r == ProblemSuggestions(doc, Head(pool))
       IN IF r.raised THEN [raised |-> TRUE, list |-> <<>>]
          ELSE ProblemLoop(doc, Tail(pool), suggestions \o r.list)

detectProblemSolverPatterns(doc, suggestions) ==
  ProblemLoop(doc, potentialProblems(doc), suggestions)

(***************************************************************************)
(* generateTransformationSuggestions.  Array.prototype.sort is stable and  *)
(* the comparator is b.confidence - a.confidence.                          *)
(***************************************************************************)

\* x put in front of the elements it ties with
InsertByConfidence_Unstable(sorted, x) ==
  LET k == Cardinality({i \in 1..Len(sorted) :
                          sorted[i].confidence > x.confidence})
  IN SubSeq(sorted, 1, k) \o <<x>> \o SubSeq(sorted, k + 1, Len(sorted))

\* x put behind every element that does not compare after it
InsertByConfidence(sorted, x) ==
  LET k == Cardinality({i \in 1..Len(sorted) :
                          sorted[i].confidence >= x.confidence})
  IN SubSeq(sorted, 1, k) \o <<x>> \o SubSeq(sorted, k + 1, Len(sorted))


\* the list returned as the detectors filled it
SortByConfidence_Unsorted(list) == list

RECURSIVE SortByConfidence(_)
SortByConfidence(list) ==
  IF list = <<>> THEN <<>>
  ELSE InsertByConfidence(SortByConfidence(SubSeq(list, 1, Len(list) - 1)),
                          list[Len(list)])

\* the array the detectors have pushed to, before the sort
DetectedSuggestions(doc) ==
  detectProblemSolverPatterns(doc, detectEquationPatterns(doc, <<>>))

\* the outcome of a call: the returned list, or raised when it throws
SortAndReturn(r) ==
  IF r.raised THEN [raised |-> TRUE, list |-> <<>>]
  ELSE [raised |-> FALSE, list |-> SortByConfidence(r.list)]

generateTransformationSuggestions(doc) ==
  SortAndReturn(DetectedSuggestions(doc))

(***************************************************************************)
(* The transformation interface: the content it was given, and the state   *)
(* analyzeContent leaves behind.                                           *)
(***************************************************************************)
VARIABLES htmlContent, analyzed, outcome, suggestions, selectedSuggestions,
          transformedBlocks, activeTab

\* ProblemSolver: its parameters, its state, and the calls it has made to
\* onStepComplete and onComplete since it was mounted or last reset
VARIABLES parameters, currentStepIndex, completedSteps, userInputs,
          showingSolution, inputError, showingHint, onStepCompleteCalls,
          onCompleteCalls

\* CreationEditor
VARIABLES blocks, activeBlockId, isBlockMenuOpen, isLibraryDialogOpen

interfaceVars ==
  <<htmlContent, analyzed, outcome, suggestions, selectedSuggestions,
    transformedBlocks, activeTab>>

solverVars ==
  <<parameters, currentStepIndex, completedSteps, userInputs,
    showingSolution, inputError, showingHint, onStepCompleteCalls,
    onCompleteCalls>>

editorVars == <<blocks, activeBlockId, isBlockMenuOpen, isLibraryDialogOpen>>

vars == <<interfaceVars, solverVars, editorVars>>

\* null, for a message and for a block id
NoError == "null"

NoBlock == 0

\* The three components are studied one at a time: the other two are not
\* on the page and their variables rest.
NoInterface ==
  /\ htmlContent = <<>>
  /\ analyzed = FALSE
  /\ outcome = [raised |-> FALSE, list |-> <<>>]
  /\ suggestions = <<>>
  /\ selectedSuggestions = <<>>
  /\ transformedBlocks = <<>>
  /\ activeTab = "original"

NoSolver ==
  /\ parameters = [steps |-> <<>>, showHints |-> TRUE,
                   progressiveReveal |-> TRUE, requireUserInput |-> FALSE,
                   solutionVisible |-> "after-attempt"]
  /\ currentStepIndex = 0
  /\ completedSteps = <<>>
  /\ userInputs = <<>>
  /\ showingSolution = FALSE
  /\ inputError = NoError
  /\ showingHint = <<>>
  /\ onStepCompleteCalls = <<>>
  /\ onCompleteCalls = 0

NoEditor ==
  /\ blocks = <<>>
  /\ activeBlockId = NoBlock
  /\ isBlockMenuOpen = FALSE
  /\ isLibraryDialogOpen = FALSE

\* suggestion.type + ':' + suggestion.sourceElements[0].textContent
getSuggestionId(doc, suggestion) ==
  <<suggestion.type, TextContent(doc, suggestion.sourceElement)>>

DefaultSelectionConfidence == 70

RECURSIVE HighConfidenceIds(_, _)
HighConfidenceIds(doc, list) ==
  IF list = <<>> THEN <<>>
  ELSE (IF Head(list).confidence >= DefaultSelectionConfidence
        THEN <<getSuggestionId(doc, Head(list))>> ELSE <<>>)
       \o HighConfidenceIds(doc, Tail(list))

Init ==
  /\ htmlContent \in Documents
  /\ analyzed = FALSE
  /\ outcome = [raised |-> FALSE, list |-> <<>>]
  /\ suggestions = <<>>
  /\ selectedSuggestions = <<>>
  /\ transformedBlocks = <<>>
  /\ activeTab = "original"
  /\ NoSolver
  /\ NoEditor

\* analyzeContent, which catches what the analysis throws and then leaves
\* the suggestions as they were.  It is called by the effect hook on mount
\* and by the "Re-analyze Content" button, which the "original" tab shows.
analyzeContent(trigger) ==
  /\ IF trigger = "mount" THEN ~analyzed
     ELSE analyzed /\ activeTab = "original"
  /\ analyzed' = TRUE
  /\ outcome' = generateTransformationSuggestions(htmlContent)
  /\ IF outcome'.raised
     THEN UNCHANGED <<suggestions, selectedSuggestions>>
     ELSE /\ suggestions' = outcome'.list
          /\ selectedSuggestions' = HighConfidenceIds(htmlContent, outcome'.list)
  /\ UNCHANGED <<htmlContent, transformedBlocks, activeTab>>
  /\ UNCHANGED <<solverVars, editorVars>>

\* the effect hook on mount
AnalyzeContent == analyzeContent("mount")

Next == AnalyzeContent

Spec == Init /\ [][Next]_vars

(***************************************************************************)
(* The interface in use: after the analysis on mount the user re-analyses, *)
(* toggles the suggestions listed in the sidebar, applies the selection    *)
(* and switches tabs.  The content is fixed for the life of the component; *)
(* the two buttons of the content area exist on the "original" tab only.   *)
(***************************************************************************)
Includes(list, x) == \E i \in 1..Len(list) : list[i] = x

\* prev.filter(id => id !== suggestionId)
RECURSIVE Without(_, _)
Without(prev, suggestionId) ==
  IF prev = <<>> THEN <<>>
  ELSE (IF Head(prev) # suggestionId THEN <<Head(prev)>> ELSE <<>>)
       \o Without(Tail(prev), suggestionId)

\* only the first occurrence removed
toggleSuggestion_RemoveFirst(prev, suggestionId) ==
  IF Includes(prev, suggestionId)
  THEN LET i == CHOOSE k \in 1..Len(prev) :
                  prev[k] = suggestionId
                  /\ \A j \in 1..(k - 1) : prev[j] # suggestionId
       IN SubSeq(prev, 1, i - 1) \o SubSeq(prev, i + 1, Len(prev))
  ELSE Append(prev, suggestionId)

\* the updater passed to setSelectedSuggestions
toggleSuggestion(prev, suggestionId) ==
  IF Includes(prev, suggestionId) THEN Without(prev, suggestionId)
  ELSE Append(prev, suggestionId)

\* Element.tagName of an HTML element: the tag in upper case
TagName(tag) ==
  CASE tag = "p" -> "P"
    [] tag = "div" -> "DIV"
    [] tag = "span" -> "SPAN"
    [] tag = "li" -> "LI"
    [] OTHER -> tag

\* the suggestions whose id is selected, in the order of the list
RECURSIVE SelectedOf(_, _, _)
SelectedOf(doc, list, selected) ==
  IF list = <<>> THEN <<>>
  ELSE (IF Includes(selected, getSuggestionId(doc, Head(list)))
        THEN <<Head(list)>> ELSE <<>>)
       \o SelectedOf(doc, Tail(list), selected)

\* an id without the index
BlockId_TimeOnly(index, now) == <<"block-", 0, "-", now>>

\* `block-${index}-${Date.now()}`
BlockId(index, now) == <<"block-", index, "-", now>>

Block(doc, suggestion, index, now) ==
  [id |-> BlockId(index, now),
   type |-> suggestion.type,
   parameters |-> suggestion.blockParameters,
   title |-> suggestion.description,
   description |->
     <<"Transformed from ", TagName(doc[suggestion.sourceElement].tag),
       " element">>]

\* the blocks applyTransformations builds at time now
BuildBlocks(doc, list, selected, now) ==
  LET chosen == SelectedOf(doc, list, selected)
  IN [k \in 1..Len(chosen) |-> Block(doc, chosen[k], k - 1, now)]

\* the values Date.now() takes
MaxTime == 2

InterfaceDocuments ==
  { ConcatAll(<<Paragraph({}, NoId, TLinear), Paragraph({}, NoId, TLinear),
                Paragraph({}, NoId, TGeneral)>>),
    Concat(Paragraph({}, NoId, TGeneral), ListOf("ol", TStepA, TStepB)),
    Concat(HeadingThenParagraph("h3", TRaw), Paragraph({}, NoId, TLinear)),
    Paragraph({"problem"}, IdBad, TRaw),
    Concat(<<El("span", 0, {}, "", NoId), Tx(1, TLinear)>>,
           Paragraph({}, NoId, TPlain)) }

InterfaceInit ==
  /\ htmlContent \in InterfaceDocuments
  /\ analyzed = FALSE
  /\ outcome = [raised |-> FALSE, list |-> <<>>]
  /\ suggestions = <<>>
  /\ selectedSuggestions = <<>>
  /\ transformedBlocks = <<>>
  /\ activeTab = "original"
  /\ NoSolver
  /\ NoEditor

\* a click on the index-th suggestion of the sidebar
ToggleSuggestion(index) ==
  /\ analyzed
  /\ index \in 1..Len(suggestions)
  /\ selectedSuggestions' =
       toggleSuggestion(selectedSuggestions,
                        getSuggestionId(htmlContent, suggestions[index]))
  /\ UNCHANGED <<htmlContent, analyzed, outcome, suggestions,
                 transformedBlocks, activeTab>>
  /\ UNCHANGED <<solverVars, editorVars>>

\* a click on the checkbox of the index-th suggestion: the input's
\* onChange calls toggleSuggestion, and the click goes on to the row that
\* holds the input, whose onClick calls toggleSuggestion too; the two
\* updaters are applied one after the other
ClickCheckbox(index) ==
  /\ analyzed
  /\ index \in 1..Len(suggestions)
  /\ selectedSuggestions' =
       toggleSuggestion(
         toggleSuggestion(selectedSuggestions,
                          getSuggestionId(htmlContent, suggestions[index])),
         getSuggestionId(htmlContent, suggestions[index]))
  /\ UNCHANGED <<htmlContent, analyzed, outcome, suggestions,
                 transformedBlocks, activeTab>>
  /\ UNCHANGED <<solverVars, editorVars>>

\* the "Apply Transformations" button of the "original" tab, and the
\* "Apply Selected" button of the sidebar, which is disabled while nothing
\* is selected
ApplyTransformations(now) ==
  /\ analyzed
  /\ \/ activeTab = "original"
     \/ suggestions # <<>> /\ selectedSuggestions # <<>>
  /\ transformedBlocks' =
       BuildBlocks(htmlContent, suggestions, selectedSuggestions, now)
  /\ activeTab' = "preview"
  /\ UNCHANGED <<htmlContent, analyzed, outcome, suggestions,
                 selectedSuggestions>>
  /\ UNCHANGED <<solverVars, editorVars>>

\* the two tab buttons, and "Go to Original Content"
SetActiveTab(tab) ==
  /\ analyzed
  /\ activeTab' = tab
  /\ UNCHANGED <<htmlContent, analyzed, outcome, suggestions,
                 selectedSuggestions, transformedBlocks>>
  /\ UNCHANGED <<solverVars, editorVars>>

InterfaceNext ==
  \/ \E trigger \in {"mount", "button"} : analyzeContent(trigger)
  \/ \E index \in 1..Len(suggestions) : ToggleSuggestion(index)
  \/ \E index \in 1..Len(suggestions) : ClickCheckbox(index)
  \/ \E now \in 1..MaxTime : ApplyTransformations(now)
  \/ \E tab \in {"original", "preview"} : SetActiveTab(tab)

InterfaceSpec == InterfaceInit /\ [][InterfaceNext]_vars

(***************************************************************************)
(* ProblemSolver.  Of a step only the presence of a hint matters to the    *)
(* component's state; indices count from 0 as in the source.  userInputs   *)
(* and showingHint are the objects of the source: functions with an entry  *)
(* for every index that was written.                                       *)
(***************************************************************************)
MaxSteps == 3

\* what the user types: nothing, or an answer
InputValues == {"", "a"}

StepLists ==
  UNION { [1..n -> {[hint |-> TRUE], [hint |-> FALSE]}] : n \in 1..MaxSteps }

SolverParameters ==
  [steps : StepLists, showHints : BOOLEAN, progressiveReveal : BOOLEAN,
   requireUserInput : BOOLEAN,
   solutionVisible : {"always", "after-attempt", "never"}]

\* "Please provide your answer before continuing."
InputErrorMessage == "Please provide your answer before continuing."

StepIndices == 0..(Len(parameters.steps) - 1)

isStepVisible(index) ==
  IF ~parameters.progressiveReveal THEN TRUE
  ELSE IF showingSolution THEN TRUE
  ELSE index <= currentStepIndex

\* no step is ever reported completed
isStepCompleted_Never(index) == FALSE

isStepCompleted(index) == Includes(completedSteps, index)

\* an entry counts as an answer, also the empty one
HasInput_EmptyCounts(inputs, index) == index \in DOMAIN inputs

\* !!userInputs[index]: there is an entry and it is not the empty string
HasInput(inputs, index) == index \in DOMAIN inputs /\ inputs[index] # ""

\* every step has a next one
HasNextStep_OffByOne(index, steps) == index < Len(steps)

\* currentStepIndex < steps.length - 1
HasNextStep(index, steps) == index < Len(steps) - 1

\* { ...prev, [index]: value }
WithEntry(prev, index, value) ==
  [i \in DOMAIN prev \cup {index} |-> IF i = index THEN value ELSE prev[i]]

\* userInputs[index] as handed to onStepComplete: one value, or none
InputAt(inputs, index) ==
  IF index \in DOMAIN inputs THEN <<inputs[index]>> ELSE <<>>

SolverInit ==
  /\ parameters \in SolverParameters
  /\ currentStepIndex = 0
  /\ completedSteps = <<>>
  /\ userInputs = <<>>
  /\ showingSolution = (parameters.solutionVisible = "always")
  /\ inputError = NoError
  /\ showingHint = <<>>
  /\ onStepCompleteCalls = <<>>
  /\ onCompleteCalls = 0
  /\ NoInterface
  /\ NoEditor

handleNextStep ==
  IF parameters.requireUserInput /\ ~HasInput(userInputs, currentStepIndex)
  THEN /\ inputError' = InputErrorMessage
       /\ UNCHANGED <<currentStepIndex, completedSteps, showingSolution,
                      onStepCompleteCalls, onCompleteCalls>>
  ELSE /\ IF ~isStepCompleted(currentStepIndex)
          THEN /\ completedSteps' = Append(completedSteps, currentStepIndex)
               /\ onStepCompleteCalls' =
                    Append(onStepCompleteCalls,
                           [stepIndex |-> currentStepIndex,
                            userInput |-> InputAt(userInputs,
                                                  currentStepIndex)])
          ELSE UNCHANGED <<completedSteps, onStepCompleteCalls>>
       /\ IF HasNextStep(currentStepIndex, parameters.steps)
          THEN /\ currentStepIndex' = currentStepIndex + 1
               /\ inputError' = NoError
               /\ UNCHANGED <<showingSolution, onCompleteCalls>>
          ELSE /\ showingSolution' = TRUE
               /\ onCompleteCalls' = onCompleteCalls + 1
               /\ UNCHANGED <<currentStepIndex, inputError>>

\* showInput of the current step: the input and its "Check" button
showInput ==
  /\ currentStepIndex \in StepIndices
  /\ parameters.requireUserInput
  /\ ~isStepCompleted(currentStepIndex)

\* the three buttons that call handleNextStep, each while it is rendered
Offered(control) ==
  CASE control = "check" -> showInput
    [] control = "next" ->
         /\ ~showingSolution
         /\ currentStepIndex < Len(parameters.steps) - 1
         /\ isStepCompleted(currentStepIndex)
    [] control = "complete" ->
         /\ ~showingSolution
         /\ currentStepIndex = Len(parameters.steps) - 1
         /\ isStepCompleted(currentStepIndex)

Controls == {"check", "next", "complete"}

HandleNextStep(control) ==
  /\ Offered(control)
  /\ handleNextStep
  /\ UNCHANGED <<parameters, userInputs, showingHint>>
  /\ UNCHANGED <<interfaceVars, editorVars>>

\* typing into the input of the current step
HandleInputChange(value) ==
  /\ showInput
  /\ userInputs' = WithEntry(userInputs, currentStepIndex, value)
  /\ inputError' = NoError
  /\ UNCHANGED <<parameters, currentStepIndex, completedSteps,
                 showingSolution, showingHint, onStepCompleteCalls,
                 onCompleteCalls>>
  /\ UNCHANGED <<interfaceVars, editorVars>>

\* the "Show Hint" / "Hide Hint" button of a visible step that has a hint
ToggleHint(stepIndex) ==
  /\ stepIndex \in StepIndices
  /\ parameters.showHints
  /\ parameters.steps[stepIndex + 1].hint
  /\ isStepVisible(stepIndex)
  /\ showingHint' =
       WithEntry(showingHint, stepIndex,
                 ~(stepIndex \in DOMAIN showingHint /\ showingHint[stepIndex]))
  /\ UNCHANGED <<parameters, currentStepIndex, completedSteps, userInputs,
                 showingSolution, inputError, onStepCompleteCalls,
                 onCompleteCalls>>
  /\ UNCHANGED <<interfaceVars, editorVars>>

\* the "Show All Steps" button
ShowSolution ==
  /\ ~showingSolution
  /\ parameters.solutionVisible # "never"
  /\ showingSolution' = TRUE
  /\ UNCHANGED <<parameters, currentStepIndex, completedSteps, userInputs,
                 inputError, showingHint, onStepCompleteCalls,
                 onCompleteCalls>>
  /\ UNCHANGED <<interfaceVars, editorVars>>

\* the "Reset" button; the calls counted are those since the last reset
ResetProblem ==
  /\ currentStepIndex' = 0
  /\ completedSteps' = <<>>
  /\ userInputs' = <<>>
  /\ showingSolution' = (parameters.solutionVisible = "always")
  /\ inputError' = NoError
  /\ showingHint' = <<>>
  /\ onStepCompleteCalls' = <<>>
  /\ onCompleteCalls' = 0
  /\ UNCHANGED parameters
  /\ UNCHANGED <<interfaceVars, editorVars>>

SolverNext ==
  \/ \E control \in Controls : HandleNextStep(control)
  \/ \E value \in InputValues : HandleInputChange(value)
  \/ \E stepIndex \in 0..(MaxSteps - 1) : ToggleHint(stepIndex)
  \/ ShowSolution
  \/ ResetProblem

SolverSpec == SolverInit /\ [][SolverNext]_vars

(***************************************************************************)
(* CreationEditor.  A block is its id and its type; ids are numbers here,  *)
(* and a new id is one no block and no selection holds, as the time stamp  *)
(* and random suffix of the source make it.                                *)
(***************************************************************************)
MaxIds == 3

\* the ids of BLOCK_TYPES
EditorBlockTypes ==
  {"equation-explorer", "problem-solver", "concept-visualizer",
   "data-explorer", "text-content"}

BlockIds == {blocks[i].id : i \in 1..Len(blocks)}

FreshIds == (1..MaxIds) \ (BlockIds \cup {activeBlockId})

\* blocks.findIndex(b => b.id === blockId), counted from 1; 0 for none
findIndex(list, blockId) ==
  IF \E i \in 1..Len(list) : list[i].id = blockId
  THEN CHOOSE i \in 1..Len(list) :
         /\ list[i].id = blockId
         /\ \A j \in 1..(i - 1) : list[j].id # blockId
  ELSE 0

\* prevBlocks.filter(block => block.id !== blockId)
WithoutBlock(list, blockId) == SelectSeq(list, LAMBDA b : b.id # blockId)

\* the list with the entries at i and j exchanged
Swapped(list, i, j) ==
  [k \in 1..Len(list) |->
     IF k = i THEN list[j] ELSE IF k = j THEN list[i] ELSE list[k]]

\* the list moveBlock sets; the list itself where it sets none
moveBlock(list, blockId, direction) ==
  LET blockIndex == findIndex(list, blockId)
  IN  IF blockIndex = 0 THEN list
      ELSE IF direction = "up" /\ blockIndex > 1
        THEN Swapped(list, blockIndex, blockIndex - 1)
      ELSE IF direction = "down" /\ blockIndex < Len(list)
        THEN Swapped(list, blockIndex, blockIndex + 1)
      ELSE list

\* the selection removeBlock leaves
removeBlock(active, blockId) == IF active = blockId THEN NoBlock ELSE active

\* the wrapper of a block: onClick={() => setActiveBlockId(block.id)}
wrapperClick(active, blockId) == blockId

EditorInit ==
  /\ blocks = <<>>
  /\ activeBlockId = NoBlock
  /\ isBlockMenuOpen = FALSE
  /\ isLibraryDialogOpen = FALSE
  /\ NoInterface
  /\ NoSolver

\* the "Create Block" button
ToggleBlockMenu ==
  /\ isBlockMenuOpen' = ~isBlockMenuOpen
  /\ UNCHANGED <<blocks, activeBlockId, isLibraryDialogOpen>>
  /\ UNCHANGED <<interfaceVars, solverVars>>

\* a button of the block menu
AddBlock(blockType, id) ==
  /\ isBlockMenuOpen
  /\ id \in FreshIds
  /\ blocks' = Append(blocks, [id |-> id, type |-> blockType])
  /\ activeBlockId' = id
  /\ isBlockMenuOpen' = FALSE
  /\ UNCHANGED isLibraryDialogOpen
  /\ UNCHANGED <<interfaceVars, solverVars>>

\* the "From Library" button
OpenLibraryDialog ==
  /\ isLibraryDialogOpen' = TRUE
  /\ UNCHANGED <<blocks, activeBlockId, isBlockMenuOpen>>
  /\ UNCHANGED <<interfaceVars, solverVars>>

\* the open dialog hands a block to onSelectBlock
HandleAddFromLibrary(blockType, id) ==
  /\ isLibraryDialogOpen
  /\ id \in FreshIds
  /\ blocks' = Append(blocks, [id |-> id, type |-> blockType])
  /\ activeBlockId' = id
  /\ UNCHANGED <<isBlockMenuOpen, isLibraryDialogOpen>>
  /\ UNCHANGED <<interfaceVars, solverVars>>

\* the open dialog calls onOpenChange(false)
CloseLibraryDialog ==
  /\ isLibraryDialogOpen
  /\ isLibraryDialogOpen' = FALSE
  /\ UNCHANGED <<blocks, activeBlockId, isBlockMenuOpen>>
  /\ UNCHANGED <<interfaceVars, solverVars>>

\* a click on a block, outside its buttons
SelectBlock(i) ==
  /\ i \in 1..Len(blocks)
  /\ activeBlockId' = wrapperClick(activeBlockId, blocks[i].id)
  /\ UNCHANGED <<blocks, isBlockMenuOpen, isLibraryDialogOpen>>
  /\ UNCHANGED <<interfaceVars, solverVars>>

\* an arrow button of the active block, unless disabled; the click goes on
\* to the wrapper
MoveBlock(i, direction) ==
  /\ i \in 1..Len(blocks)
  /\ activeBlockId = blocks[i].id
  /\ IF direction = "up"
     THEN findIndex(blocks, blocks[i].id) # 1
     ELSE findIndex(blocks, blocks[i].id) # Len(blocks)
  /\ blocks' = moveBlock(blocks, blocks[i].id, direction)
  /\ activeBlockId' = wrapperClick(activeBlockId, blocks[i].id)
  /\ UNCHANGED <<isBlockMenuOpen, isLibraryDialogOpen>>
  /\ UNCHANGED <<interfaceVars, solverVars>>

\* the remove button of the active block; the click goes on to the
\* wrapper, whose setActiveBlockId is the last one of the batch
RemoveBlock(i) ==
  /\ i \in 1..Len(blocks)
  /\ activeBlockId = blocks[i].id
  /\ blocks' = WithoutBlock(blocks, blocks[i].id)
  /\ activeBlockId' =
       wrapperClick(removeBlock(activeBlockId, blocks[i].id), blocks[i].id)
  /\ UNCHANGED <<isBlockMenuOpen, isLibraryDialogOpen>>
  /\ UNCHANGED <<interfaceVars, solverVars>>

\* the "Edit Block Settings" button of the sidebar
ClearActiveBlock ==
  /\ activeBlockId # NoBlock
  /\ activeBlockId' = NoBlock
  /\ UNCHANGED <<blocks, isBlockMenuOpen, isLibraryDialogOpen>>
  /\ UNCHANGED <<interfaceVars, solverVars>>

EditorNext ==
  \/ ToggleBlockMenu
  \/ \E blockType \in EditorBlockTypes, id \in 1..MaxIds :
       AddBlock(blockType, id)
  \/ OpenLibraryDialog
  \/ \E blockType \in EditorBlockTypes, id \in 1..MaxIds :
       HandleAddFromLibrary(blockType, id)
  \/ CloseLibraryDialog
  \/ \E i \in 1..MaxIds : SelectBlock(i)
  \/ \E i \in 1..MaxIds, direction \in {"up", "down"} : MoveBlock(i, direction)
  \/ \E i \in 1..MaxIds : RemoveBlock(i)
  \/ ClearActiveBlock

EditorSpec == EditorInit /\ [][EditorNext]_vars

(***************************************************************************)
(* Properties of the analysis.  Returned is the list a completed call has  *)
(* returned; Pushed is the array as the detectors filled it.               *)
(***************************************************************************)
HasReturned == analyzed /\ ~outcome.raised

Returned == outcome.list

Pushed == DetectedSuggestions(htmlContent).list

Nodes == 1..Len(htmlContent)

RECURSIVE WithConfidence(_, _)
WithConfidence(list, c) ==
  IF list = <<>> THEN <<>>
  ELSE (IF Head(list).confidence = c THEN <<Head(list)>> ELSE <<>>)
       \o WithConfidence(Tail(list), c)

\* the suggestions of one type that name element e as their source
SuggestionsFor(list, type, e) ==
  {i \in 1..Len(list) : list[i].type = type /\ list[i].sourceElement = e}

IsProblemCandidate(e) ==
  /\ IsElement(htmlContent, e)
  /\ Len(TextContent(htmlContent, e)) >= MinProblemLength
  /\ ProblemMatch(TextContent(htmlContent, e)).start # 0
  /\ LET pool == potentialProblems(htmlContent)
     IN \E i \in 1..Len(pool) : pool[i] = e

IsEquationCandidate(e) == htmlContent[e].tag \in {"p", "div", "span", "li"}

\* C1: the list a call returns is sorted by confidence, non-increasing
C1_SortedByConfidence ==
  HasReturned =>
    \A i \in 1..(Len(Returned) - 1) :
      Returned[i].confidence >= Returned[i + 1].confidence

\* a returned list with a strict descent that the sort had to establish
C1_Witness ==
  /\ HasReturned
  /\ \E i \in 1..(Len(Returned) - 1) :
       Returned[i].confidence > Returned[i + 1].confidence
  /\ LET pushed == Pushed
     IN \E i \in 1..(Len(pushed) - 1) :
          pushed[i].confidence < pushed[i + 1].confidence

\* C2: every problem-solver suggestion returned has at least one step
C2_StepsNeverEmpty ==
  HasReturned =>
    \A i \in 1..Len(Returned) :
      Returned[i].type = "problem-solver" =>
        Len(Returned[i].blockParameters.steps) >= 1

\* a problem-solver suggestion was returned, and another problem candidate
\* of the same document, left without steps, has none
C2_Witness ==
  /\ HasReturned
  /\ \E i \in 1..Len(Returned) : Returned[i].type = "problem-solver"
  /\ \E e \in Nodes :
       /\ IsProblemCandidate(e)
       /\ SuggestionsFor(Returned, "problem-solver", e) = {}

\* C3: a problem candidate with the text "Solve for x: 2x + 3 = 7" and no
\* solution container gets exactly one problem-solver suggestion, with two
\* steps, the second one "x = 2"
C3_SolveForSynthesizesTwoSteps ==
  HasReturned =>
    \A e \in Nodes :
      ( /\ IsProblemCandidate(e)
        /\ TextContent(htmlContent, e) = TSolve
        /\ SolutionContainer(htmlContent, e).node = 0 )
      => /\ Cardinality(SuggestionsFor(Returned, "problem-solver", e)) = 1
         /\ \A i \in SuggestionsFor(Returned, "problem-solver", e) :
              /\ Len(Returned[i].blockParameters.steps) = 2
              /\ Returned[i].blockParameters.steps[2].expression
                   = <<"x", " ", "=", " ", "2">>

\* C4: the analysis of every document completes and returns a list, which
\* is empty when nothing in the document matches
C4_NeverRaises ==
  analyzed =>
    /\ ~outcome.raised
    /\ ( (\A e \in Nodes :
            /\ ~IsProblemCandidate(e)
            /\ IsEquationCandidate(e) =>
                 EquationRule(TextContent(htmlContent, e)) = "none")
         => Returned = <<>> )

IsText(s) == \A i \in 1..Len(s) : s[i] \in AnyChar

\* C5: every suggestion carries the parameters its block type requires:
\* equation suggestions a non-empty equation, one variable v, and range and
\* initialValues keyed by exactly v (range [-10, 10], initial value 0);
\* problem-solver suggestions a non-empty problem and a list of steps that
\* each have a description and an expression
C5_RequiredParameters ==
  HasReturned =>
    \A i \in 1..Len(Returned) :
      LET bp == Returned[i].blockParameters
      IN IF Returned[i].type = "problem-solver"
         THEN /\ {"problem", "steps"} \subseteq DOMAIN bp
              /\ IsText(bp.problem) /\ bp.problem # <<>>
              /\ \A j \in 1..Len(bp.steps) :
                   /\ {"description", "expression"} \subseteq DOMAIN bp.steps[j]
                   /\ IsText(bp.steps[j].description)
                   /\ IsText(bp.steps[j].expression)
         ELSE /\ {"equation", "variables", "range", "initialValues"}
                   \subseteq DOMAIN bp
              /\ IsText(bp.equation) /\ bp.equation # <<>>
              /\ Len(bp.variables) = 1
              /\ DOMAIN bp.range = {bp.variables[1]}
              /\ DOMAIN bp.initialValues = {bp.variables[1]}
              /\ bp.range[bp.variables[1]] = <<-10, 10>>
              /\ bp.range[bp.variables[1]][1] < bp.range[bp.variables[1]][2]
              /\ bp.initialValues[bp.variables[1]] = 0

\* an equation suggestion whose variable is not the default "x", next to a
\* problem-solver suggestion with extracted or synthesized steps
C5_Witness ==
  /\ HasReturned
  /\ \E i \in 1..Len(Returned) :
       /\ Returned[i].type = "equationExplorer"
       /\ Returned[i].blockParameters.variables # <<"x">>
  /\ \E i \in 1..Len(Returned) : Returned[i].type = "problem-solver"

\* C6: suggestions of equal confidence are returned in the order in which
\* the detectors pushed them
C6_TiesKeepEncounterOrder ==
  HasReturned =>
    LET pushed == Pushed
    IN \A c \in {pushed[i].confidence : i \in 1..Len(pushed)} :
         WithConfidence(Returned, c) = WithConfidence(pushed, c)

\* two different suggestions of equal confidence, in a list the sort had to
\* reorder
C6_Witness ==
  /\ HasReturned
  /\ LET pushed == Pushed
     IN /\ Returned # pushed
        /\ \E i, j \in 1..Len(pushed) :
             /\ i < j
             /\ pushed[i].confidence = pushed[j].confidence
             /\ pushed[i] # pushed[j]
             /\ \E k \in 1..Len(pushed) :
                  k < i /\ pushed[k].confidence < pushed[i].confidence

BlockTypes ==
  {"equation-explorer", "problem-solver", "concept-visualizer", "data-explorer"}

\* C8: the type of every suggestion returned is one of the block types, and
\* it is equation-explorer or problem-solver
C8_TypeInEnumeration ==
  HasReturned =>
    \A i \in 1..Len(Returned) :
      /\ Returned[i].type \in BlockTypes
      /\ Returned[i].type \in {"equation-explorer", "problem-solver"}

\* C9: an element whose text matches the quadratic pattern, in either of
\* its two shapes, gets the quadratic suggestion (confidence 0.9)
C9_QuadraticClassifiedQuadratic ==
  HasReturned =>
    \A e \in Nodes :
      ( /\ IsEquationCandidate(e)
        /\ Len(TextContent(htmlContent, e)) >= MinEquationLength
        /\ Test(quadraticPattern, TextContent(htmlContent, e)) )
      => \E i \in SuggestionsFor(Returned, "equationExplorer", e) :
           /\ Returned[i].confidence = QuadraticConfidence
           /\ Returned[i].description
                = "Interactive Quadratic Function Explorer"

\* the confidence of the one equation suggestion of element e, 0 for none
ExpectedConfidence(text) ==
  IF Len(text) < MinEquationLength THEN 0
  ELSE IF Test(linearEquationPattern, text) THEN LinearConfidence
  ELSE IF Test(quadraticPattern, text) THEN QuadraticConfidence
  ELSE IF Test(mathPattern, text) THEN GeneralConfidence
  ELSE 0

LettersBeforeEquals(s) ==
  {i \in 1..Len(s) :
     /\ s[i] \in Letter
     /\ \E j \in (i + 1)..Len(s) :
          s[j] = "=" /\ \A k \in (i + 1)..(j - 1) : s[k] \in Space}

FirstOf(S) == CHOOSE i \in S : \A j \in S : i <= j

\* the letter before "=" when there is one, else the first letter, lowercased
ExpectedLinearVariable(s) ==
  LET before == LettersBeforeEquals(s)
      letters == {i \in 1..Len(s) : s[i] \in Letter}
  IN ToLowerCase(s[FirstOf(IF before # {} THEN before ELSE letters)])

IsLinearSuggestion(sg) ==
  sg.type = "equationExplorer" /\ sg.confidence = LinearConfidence

LinearSnippet(e) ==
  Matched(Search(linearEquationPattern, TextContent(htmlContent, e)),
          TextContent(htmlContent, e))

\* C11: a linear suggestion has as its equation the trimmed snippet the
\* linear pattern matched, and as its one variable the lowercased letter
\* before "=" in the snippet, or the letter of its leading term when no
\* letter stands before "="; <p>y = 2x + 1</p> gives exactly one suggestion,
\* with confidence 0.85, variables [y] and equation "y = 2x + 1"
C11_LinearVariableAndEquation ==
  HasReturned =>
    /\ \A i \in 1..Len(Returned) :
         IsLinearSuggestion(Returned[i]) =>
           LET snippet == LinearSnippet(Returned[i].sourceElement)
           IN /\ Returned[i].blockParameters.equation = Trim(snippet)
              /\ Returned[i].blockParameters.variables
                   = <<ExpectedLinearVariable(snippet)>>
    /\ htmlContent = Paragraph({}, NoId, TLinear) =>
         /\ Len(Returned) = 1
         /\ Returned[1].confidence = LinearConfidence
         /\ Returned[1].blockParameters.variables = <<"y">>
         /\ Returned[1].blockParameters.equation = TLinear

\* a linear suggestion whose snippet is a part of the element text, has no
\* letter before "=" and a leading term written with a capital, next to one
\* whose variable is the letter before "="
C11_Witness ==
  /\ HasReturned
  /\ \E i \in 1..Len(Returned) :
       /\ IsLinearSuggestion(Returned[i])
       /\ LettersBeforeEquals(LinearSnippet(Returned[i].sourceElement)) = {}
       /\ LinearSnippet(Returned[i].sourceElement)
            # TextContent(htmlContent, Returned[i].sourceElement)
       /\ Returned[i].blockParameters.variables = <<"n">>
  /\ \E i \in 1..Len(Returned) :
       /\ IsLinearSuggestion(Returned[i])
       /\ LettersBeforeEquals(LinearSnippet(Returned[i].sourceElement)) # {}
       /\ Returned[i].blockParameters.variables = <<"y">>

\* the confidence the description of a suggestion stands for
RuleConfidence(sg) ==
  CASE sg.description = "Interactive Linear Equation Explorer" ->
         LinearConfidence
    [] sg.description = "Interactive Quadratic Function Explorer" ->
         QuadraticConfidence
    [] sg.description = "Interactive Function Explorer" -> GeneralConfidence
    [] sg.description = "Interactive Problem Solver" -> ProblemConfidence
    [] OTHER -> -1

\* C12: the confidence of every suggestion is the constant of the rule that
\* produced it (0.85 linear, 0.9 quadratic, 0.7 general, 0.8 problem
\* solver) and lies in [0, 1]; no other value appears
C12_ConfidenceIsRuleConstant ==
  HasReturned =>
    \A i \in 1..Len(Returned) :
      /\ Returned[i].confidence = RuleConfidence(Returned[i])
      /\ Returned[i].confidence \in {85, 90, 70, 80}
      /\ 0 <= Returned[i].confidence /\ Returned[i].confidence <= 100
      /\ Returned[i].type = "problem-solver" <=>
           Returned[i].description = "Interactive Problem Solver"

\* one returned list with suggestions of all four rules, the problem-solver
\* ones with different numbers of steps across the documents
C12_Witness ==
  /\ HasReturned
  /\ {Returned[i].confidence : i \in 1..Len(Returned)} = {85, 90, 70, 80}
  /\ \E i \in 1..Len(Returned) :
       /\ Returned[i].type = "problem-solver"
       /\ Len(Returned[i].blockParameters.steps) = 2

\* the positions of the suggestions whose identity is selected
SelectedPositions ==
  {i \in 1..Len(suggestions) :
     \E j \in 1..Len(selectedSuggestions) :
       selectedSuggestions[j]
         = <<suggestions[i].type,
             TextContent(htmlContent, suggestions[i].sourceElement)>>}

\* C13: an apply builds one block per suggestion whose identity is
\* selected and none for the others, in the order of the suggestion list;
\* each block takes type, parameters and title from its suggestion, its
\* description from the tag of the source element, and an id no other
\* block of the same apply has
C13_ApplyBuildsSelectedBlocks ==
  [][ (\E now \in 1..MaxTime : ApplyTransformations(now)) =>
        LET chosen == SortedSeq(SelectedPositions)
            built == transformedBlocks'
        IN /\ Len(built) = Len(chosen)
           /\ \A k \in 1..Len(chosen) :
                /\ built[k].type = suggestions[chosen[k]].type
                /\ built[k].parameters = suggestions[chosen[k]].blockParameters
                /\ built[k].title = suggestions[chosen[k]].description
                /\ built[k].description[2]
                     = TagName(htmlContent[suggestions[chosen[k]].sourceElement].tag)
           /\ \A k, l \in 1..Len(built) :
                k # l => built[k].id # built[l].id ]_vars

\* blocks built by an apply while some suggestions were selected and at
\* least one was not
C13_Witness ==
  /\ activeTab = "preview"
  /\ Len(transformedBlocks) >= 2
  /\ Len(transformedBlocks) < Len(suggestions)
  /\ \E k, l \in 1..Len(transformedBlocks) :
       transformedBlocks[k].type # transformedBlocks[l].type

\* Array.prototype.includes on the selected identities
SelectedSet == {selectedSuggestions[j] : j \in 1..Len(selectedSuggestions)}

\* C14: a toggle of an identity flips whether it is selected and leaves
\* every other identity as it was, and a second toggle of the same
\* identity gives back the set of selected identities before the first
C14_ToggleFlipsOneIdentity ==
  [][ \A index \in 1..Len(suggestions) :
        ToggleSuggestion(index) =>
          LET id == <<suggestions[index].type,
                      TextContent(htmlContent, suggestions[index].sourceElement)>>
              after == {selectedSuggestions'[j] :
                          j \in 1..Len(selectedSuggestions')}
              again == toggleSuggestion(selectedSuggestions', id)
          IN /\ (id \in after) <=> (id \notin SelectedSet)
             /\ after \ {id} = SelectedSet \ {id}
             /\ {again[j] : j \in 1..Len(again)} = SelectedSet ]_vars

\* a selection changed by toggles: an identity that two suggestions share
\* has been switched off, and another identity is selected
C14_Witness ==
  /\ analyzed
  /\ \E i, k \in 1..Len(suggestions) :
       /\ i # k
       /\ getSuggestionId(htmlContent, suggestions[i])
            = getSuggestionId(htmlContent, suggestions[k])
       /\ getSuggestionId(htmlContent, suggestions[i]) \notin SelectedSet
  /\ selectedSuggestions # <<>>

\* the text of s behind the first character that is in set S
After(s, S) ==
  TrimStart(SubSeq(s, FirstOf({i \in 1..Len(s) : s[i] \in S}) + 1, Len(s)))

\* the parts of an equation written "c v + k = r" or "c v - k = r"
Coefficient(eq) ==
  LET v == FirstOf({i \in 1..Len(eq) : eq[i] \in Letter})
  IN IF v = 1 THEN Num(1, 1) ELSE ParseFloat(SubSeq(eq, 1, v - 1))

Unknown(eq) == <<eq[FirstOf({i \in 1..Len(eq) : eq[i] \in Letter})]>>

SignedConstant(eq) ==
  LET k == ParseFloat(After(eq, PlusMinus))
  IN IF eq[FirstOf({i \in 1..Len(eq) : eq[i] \in PlusMinus})] = "-"
     THEN Num(-k.n, k.d) ELSE k

RightSide(eq) == ParseFloat(After(eq, {"="}))

IsSynthesized(sg) ==
  /\ sg.type = "problem-solver"
  /\ sg.blockParameters.steps[1].description = IsolateLabel

\* C15: synthesized steps solve the matched equation c v + k = r or
\* c v - k = r: with s the value for which c s + k = r (c s - k = r), the
\* first expression is "c v = c s" and the second is "v = s"
C15_SynthesizedStepsSolve ==
  HasReturned =>
    \A i \in 1..Len(Returned) :
      IsSynthesized(Returned[i]) =>
        LET text == TextContent(htmlContent, Returned[i].sourceElement)
            eq == Matched(ProblemMatch(text), text)
            c == Coefficient(eq)
            cs == NumSub(RightSide(eq), SignedConstant(eq))
            steps == Returned[i].blockParameters.steps
        IN /\ c.n # 0
           /\ Len(steps) = 2
           /\ steps[1].expression
                = FormatNumber(c) \o Unknown(eq) \o <<" ", "=", " ">>
                    \o FormatNumber(cs)
           /\ steps[2].expression
                = Unknown(eq) \o <<" ", "=", " ">>
                    \o FormatNumber(NumDiv(cs, c))

\* the smallest member of a set of nodes, 0 for the empty set
FirstOrNone(S) == IF S = {} THEN 0 ELSE FirstOf(S)

\* the element siblings behind e that carry the tag
FollowingSiblings(e, tag) ==
  {n \in Nodes :
     /\ n > e
     /\ htmlContent[n].tag = tag
     /\ htmlContent[n].parent = htmlContent[e].parent}

ChildCount(d) ==
  Cardinality({n \in Nodes : IsElement(htmlContent, n)
                               /\ htmlContent[n].parent = d})

\* the first .solution element inside the nearest .problem-container
SolutionInside(e) ==
  LET holders == {a \in Nodes :
                    /\ "problem-container" \in htmlContent[a].cls
                    /\ a = e \/ IsAncestor(htmlContent, a, e)}
  IN IF holders = {} THEN 0
     ELSE LET nearest == CHOOSE a \in holders : \A b \in holders : b <= a
          IN FirstOrNone({n \in Nodes :
                            /\ "solution" \in htmlContent[n].cls
                            /\ IsAncestor(htmlContent, nearest, n)})

\* the element with id solution-<id of e>
SolutionById(e) ==
  FirstOrNone({n \in Nodes :
                 /\ IsElement(htmlContent, n)
                 /\ htmlContent[n].id = SolutionPrefix \o htmlContent[e].id})

ContainerOf(e) == SolutionContainer(htmlContent, e).node

StepDivs(e) == {d \in FollowingSiblings(e, "div") : ChildCount(d) > 1}

\* C17: a problem element without a .solution or #solution-<id> container
\* and without a following ol or ul sibling, but with a following div
\* sibling that has more than one child element, has the nearest such div
\* as its solution container, whatever other div siblings follow it
C17_NearestDivWithChildren ==
  HasReturned =>
    \A e \in Nodes :
      ( /\ IsProblemCandidate(e)
        /\ SolutionInside(e) = 0 /\ SolutionById(e) = 0
        /\ FollowingSiblings(e, "ol") = {}
        /\ FollowingSiblings(e, "ul") = {}
        /\ StepDivs(e) # {} )
      => ContainerOf(e) = FirstOf(StepDivs(e))

\* the li, p and div.step descendants of container c, in document order
StepDescendants(c) ==
  SortedSeq({n \in Nodes :
               /\ IsAncestor(htmlContent, c, n)
               /\ \/ htmlContent[n].tag \in {"li", "p"}
                  \/ /\ htmlContent[n].tag = "div"
                     /\ "step" \in htmlContent[n].cls})

\* C18: the steps of a suggestion whose element has a solution container
\* are one per li, p or div.step descendant of the container, in document
\* order, the k-th made from the k-th descendant and described "Step k"
C18_OneStepPerDescendant ==
  HasReturned =>
    \A e \in Nodes :
      IsProblemCandidate(e) /\ ContainerOf(e) # 0 =>
        \A i \in SuggestionsFor(Returned, "problem-solver", e) :
          LET steps == Returned[i].blockParameters.steps
              from == StepDescendants(ContainerOf(e))
          IN /\ Len(steps) = Len(from)
             /\ \A k \in 1..Len(steps) :
                  /\ steps[k].description
                       = <<"S","t","e","p"," ">> \o FormatNat(k)
                  /\ steps[k].expression
                       = ExtractedStep(htmlContent, from[k], k - 1).expression
                  /\ steps[k].explanation
                       = ExtractedStep(htmlContent, from[k], k - 1).explanation

\* a suggestion with two different steps taken from a container, and a
\* suggestion whose container has a descendant that is no step element
C18_Witness ==
  /\ HasReturned
  /\ \E e \in Nodes :
       /\ IsProblemCandidate(e) /\ ContainerOf(e) # 0
       /\ \E i \in SuggestionsFor(Returned, "problem-solver", e) :
            /\ Len(Returned[i].blockParameters.steps) = 2
            /\ Returned[i].blockParameters.steps[1].expression
                 # Returned[i].blockParameters.steps[2].expression
  /\ \E e \in Nodes :
       /\ IsProblemCandidate(e) /\ ContainerOf(e) # 0
       /\ SuggestionsFor(Returned, "problem-solver", e) # {}
       /\ \E n \in Nodes :
            /\ IsElement(htmlContent, n)
            /\ IsAncestor(htmlContent, ContainerOf(e), n)
            /\ \A k \in 1..Len(StepDescendants(ContainerOf(e))) :
                 StepDescendants(ContainerOf(e))[k] # n

\* the text the problem cue matched holds "=" and a linear equation
CueIsSolvable(e) ==
  LET text == TextContent(htmlContent, e)
      cue == Matched(ProblemMatch(text), text)
  IN (\E k \in 1..Len(cue) : cue[k] = "=") /\ Test(solvablePattern, cue)

\* C19: steps are synthesized only for an element without a solution
\* container: an element whose container has no li, p or div.step
\* descendant gets no suggestion, solvable or not, and so does an element
\* without a container whose matched cue text is no linear equation with
\* "="
C19_SynthesisOnlyWithoutContainer ==
  HasReturned =>
    \A e \in Nodes :
      IsProblemCandidate(e) =>
        LET mine == SuggestionsFor(Returned, "problem-solver", e)
        IN /\ ContainerOf(e) # 0 =>
                \A i \in mine : ~IsSynthesized(Returned[i])
           /\ ContainerOf(e) # 0 /\ StepDescendants(ContainerOf(e)) = <<>>
                => mine = {}
           /\ ContainerOf(e) = 0 /\ ~CueIsSolvable(e) => mine = {}

\* an element with a solvable equation and a container without step
\* elements, and an element with a cue but neither container nor equation
C19_Witness ==
  /\ HasReturned
  /\ \E e \in Nodes :
       /\ IsProblemCandidate(e)
       /\ ContainerOf(e) # 0
       /\ StepDescendants(ContainerOf(e)) = <<>>
       /\ CueIsSolvable(e)
  /\ \E e \in Nodes :
       /\ IsProblemCandidate(e)
       /\ ContainerOf(e) = 0
       /\ ~CueIsSolvable(e)

\* C20: no problem-solver suggestion comes from an element with a text of
\* fewer than 10 characters: the problem parameter of every problem-solver
\* suggestion, the trimmed text of its element, has at least 10 characters
C20_ProblemAtLeastTenCharacters ==
  HasReturned =>
    \A i \in 1..Len(Returned) :
      Returned[i].type = "problem-solver" =>
        /\ Len(TextContent(htmlContent, Returned[i].sourceElement)) >= 10
        /\ Returned[i].blockParameters.problem
             = Trim(TextContent(htmlContent, Returned[i].sourceElement))
        /\ Len(Returned[i].blockParameters.problem) >= 10

\* C21: equation suggestions of equal confidence are returned in the
\* document order of their source elements (nodes are numbered in document
\* order), also across tags and for nested elements
C21_EqualConfidenceInDocumentOrder ==
  HasReturned =>
    \A i, j \in 1..Len(Returned) :
      ( /\ i < j
        /\ Returned[i].type = "equationExplorer"
        /\ Returned[j].type = "equationExplorer"
        /\ Returned[i].confidence = Returned[j].confidence )
        => Returned[i].sourceElement < Returned[j].sourceElement

\* the array the detectors would have pushed to had the problem detector
\* run before the equation detector
ProblemDetectorFirst(doc) ==
  LET r == detectProblemSolverPatterns(doc, <<>>)
  IN IF r.raised THEN r
     ELSE [raised |-> FALSE, list |-> detectEquationPatterns(doc, r.list)]

\* C22: the detectors run in the other order give the same outcome: the
\* same sorted list, or the same failure
C22_DetectorOrderInsensitive ==
  analyzed => outcome = SortAndReturn(ProblemDetectorFirst(htmlContent))

\* both detectors have pushed, the two orders fill the array differently,
\* and the sort has moved a suggestion
C22_Witness ==
  /\ HasReturned
  /\ \E i \in 1..Len(Returned) : Returned[i].type = "equationExplorer"
  /\ \E i \in 1..Len(Returned) : Returned[i].type = "problem-solver"
  /\ ProblemDetectorFirst(htmlContent).list # Pushed
  /\ Returned # Pushed
  /\ Returned # ProblemDetectorFirst(htmlContent).list

\* the matched cue text of a problem element
CueOf(e) ==
  Matched(ProblemMatch(TextContent(htmlContent, e)),
          TextContent(htmlContent, e))

\* a problem element without a solution container whose matched text is a
\* linear equation with coefficient zero
HasZeroCoefficient(e) ==
  /\ IsProblemCandidate(e)
  /\ ContainerOf(e) = 0
  /\ CueIsSolvable(e)
  /\ Coefficient(CueOf(e)).n = 0

\* what JavaScript prints for (r - k) / 0
OverZero(r, k) ==
  IF r.n * k.d > k.n * r.d THEN <<"I","n","f","i","n","i","t","y">>
  ELSE IF r.n * k.d < k.n * r.d
       THEN <<"-","I","n","f","i","n","i","t","y">>
  ELSE <<"N","a","N">>

\* C23: an element whose matched linear equation has coefficient zero still
\* gets exactly one problem-solver suggestion per visit, with two steps,
\* whose second expression is "v = Infinity", "v = -Infinity" or "v = NaN":
\* the outcome of the division by zero
C23_ZeroCoefficientStillEmits ==
  /\ analyzed /\ (\E e \in Nodes : HasZeroCoefficient(e)) => ~outcome.raised
  /\ HasReturned =>
       \A e \in Nodes :
         HasZeroCoefficient(e) =>
           LET mine == SuggestionsFor(Returned, "problem-solver", e)
               eq == CueOf(e)
           IN /\ mine # {}
              /\ \A i \in mine :
                   LET steps == Returned[i].blockParameters.steps
                   IN /\ Len(steps) = 2
                      /\ steps[2].expression
                           = Unknown(eq) \o <<" ", "=", " ">>
                               \o OverZero(RightSide(eq),
                                           ParseFloat(After(eq, PlusMinus)))

\* "0x + 3 = 7" has been analysed and its second step reads "x = Infinity"
C23_Witness ==
  /\ HasReturned
  /\ \E e \in Nodes :
       /\ HasZeroCoefficient(e)
       /\ \E i \in SuggestionsFor(Returned, "problem-solver", e) :
            Returned[i].blockParameters.steps[2].expression
              = <<"x"," ","="," ","I","n","f","i","n","i","t","y">>

\* C24: no element is the source of more than one problem-solver
\* suggestion, also when it satisfies several of the candidate selectors
C24_OneProblemSuggestionPerElement ==
  HasReturned =>
    \A e \in Nodes :
      Cardinality(SuggestionsFor(Returned, "problem-solver", e)) <= 1

\* C25: one click on a suggestion entry, on the row or on its checkbox,
\* flips that suggestion's selected state: it is selected afterwards iff it
\* was not selected before
C25_ClickFlipsSelection ==
  [][\A index \in 1..Len(suggestions) :
       ToggleSuggestion(index) \/ ClickCheckbox(index) =>
         (Includes(selectedSuggestions',
                   getSuggestionId(htmlContent, suggestions[index]))
            <=> ~Includes(selectedSuggestions,
                          getSuggestionId(htmlContent, suggestions[index])))
    ]_vars


(***************************************************************************)
(* C26: a ProblemSolver with requireUserInput = false can be worked        *)
(* through step by step: until onComplete has been called, the rendered    *)
(* controls offer a way to invoke handleNextStep.                          *)
(***************************************************************************)
C26_StepThroughOffered ==
  ~parameters.requireUserInput =>
    \/ onCompleteCalls > 0
    \/ ENABLED (\E control \in Controls : HandleNextStep(control))

\* what holds instead: without required input no step is ever completed
NeverCompletedWithoutInput ==
  ~parameters.requireUserInput =>
    /\ completedSteps = <<>>
    /\ onStepCompleteCalls = <<>>
    /\ onCompleteCalls = 0
    /\ \A control \in Controls : ~Offered(control)


(***************************************************************************)
(* C27: currentStepIndex stays within 0 .. steps.length - 1 and every      *)
(* index in completedSteps is at most currentStepIndex, whatever sequence  *)
(* of next-step, input-change, hint-toggle, show-solution and reset        *)
(* actions is performed.                                                   *)
(***************************************************************************)
C27_IndexWithinSteps ==
  parameters.steps # <<>> =>
    /\ currentStepIndex >= 0
    /\ currentStepIndex <= Len(parameters.steps) - 1
    /\ \A k \in 1..Len(completedSteps) : completedSteps[k] <= currentStepIndex

\* C27 witness: the last of several steps is current and has been completed
C27_Witness ==
  /\ Len(parameters.steps) > 1
  /\ currentStepIndex = Len(parameters.steps) - 1
  /\ Len(completedSteps) = Len(parameters.steps)
  /\ showingHint # <<>>


(***************************************************************************)
(* C28: with requireUserInput = true, a call of handleNextStep while the   *)
(* current step has no user input, or the empty one, only sets the input   *)
(* error message: currentStepIndex, completedSteps and showingSolution are *)
(* unchanged and neither onStepComplete nor onComplete is invoked.         *)
(***************************************************************************)
C28_MissingInputOnlySetsError ==
  [][ ( /\ \E control \in Controls : HandleNextStep(control)
        /\ parameters.requireUserInput
        /\ \/ currentStepIndex \notin DOMAIN userInputs
           \/ userInputs[currentStepIndex] = "" )
      => ( /\ inputError' = InputErrorMessage
           /\ currentStepIndex' = currentStepIndex
           /\ completedSteps' = completedSteps
           /\ showingSolution' = showingSolution
           /\ onStepCompleteCalls' = onStepCompleteCalls
           /\ onCompleteCalls' = onCompleteCalls ) ]_vars

\* C28 witness: the error is shown for a step whose input was typed and
\* emptied again, after an earlier step went through
C28_Witness ==
  /\ parameters.requireUserInput
  /\ inputError = InputErrorMessage
  /\ currentStepIndex > 0
  /\ currentStepIndex \in DOMAIN userInputs
  /\ userInputs[currentStepIndex] = ""


(***************************************************************************)
(* C29: between two resets onStepComplete is invoked at most once per step *)
(* index and in increasing index order, completedSteps never contains a    *)
(* duplicate index, and onComplete is invoked at most once and only after  *)
(* the last step has been marked completed.                                *)
(***************************************************************************)
C29_CallbacksOncePerStep ==
  /\ \A j, k \in 1..Len(onStepCompleteCalls) :
       j < k => onStepCompleteCalls[j].stepIndex
                  < onStepCompleteCalls[k].stepIndex
  /\ \A j, k \in 1..Len(completedSteps) :
       j # k => completedSteps[j] # completedSteps[k]
  /\ onCompleteCalls <= 1
  /\ onCompleteCalls > 0 =>
       \E k \in 1..Len(completedSteps) :
         completedSteps[k] = Len(parameters.steps) - 1

\* C29 witness: several steps were completed one by one and onComplete
\* was called
C29_Witness ==
  /\ Len(parameters.steps) > 1
  /\ Len(onStepCompleteCalls) = Len(parameters.steps)
  /\ onCompleteCalls = 1


(***************************************************************************)
(* C30: in CreationEditor activeBlockId is null or the id of a block in    *)
(* the blocks list, after any sequence of add, add-from-library, select,   *)
(* move and remove actions; after a click on the remove button of the      *)
(* active block it is null.                                                *)
(***************************************************************************)
C30_ActiveBlockExists ==
  \/ activeBlockId = NoBlock
  \/ \E i \in 1..Len(blocks) : blocks[i].id = activeBlockId

====
